---- MODULE Spec2Model ----
(***************************************************************************)
(* btfx-trader: the account engine and order coordinator of                *)
(* btfx_trader/private.py (class _Account and class Trader).               *)
(*                                                                         *)
(* Units.  Python floats are modelled as integers.  An amount counts the   *)
(* smallest amount the code keeps (round(x, 8)); a price and a balance in  *)
(* usd count cents (the "%.2f" of the transport call, the 0.01 floor), so  *)
(* that remaining * price is a number of cents.  A ratio is a percentage.  *)
(*                                                                         *)
(* Dictionaries (OrderedDict, defaultdict) are sequences of <<key, value>> *)
(* pairs in insertion order; the deque of executed orders is a sequence of *)
(* <<id, order>> pairs, oldest first.                                      *)
(***************************************************************************)
EXTENDS Integers, Sequences, FiniteSets, TLC

VARIABLES
    orders,       \* _Account._orders          (OrderedDict id -> order)
    executed,     \* _Account._executed_orders (deque(maxlen=100) of (id, order))
    wallets,      \* _Account._wallets         (defaultdict(float))
    prices,       \* _Account._prices          (defaultdict(float))
    log,          \* the audit entries written by _log_order
    symbols,      \* Trader.symbols
    disconnect,   \* Trader._disconnect_event
    queue,        \* wss.queue_processor.account[source], one FIFO per source
    tickq,        \* wss.queue_processor.tickers[('ticker', symbol)]
    sent,         \* the new_order calls made on the transport
    cancels,      \* the cancel_order calls made on the transport
    stopped,      \* wss.stop() has been called
    dropped,      \* the connection of the transport has dropped
    wpc,          \* the receiver thread: "off", "top", "poll", "done", "dead"
    widx,         \* its position in the cycle over _sources and symbols
    wops,         \* the store operations of the event it is applying
    kpc,          \* the thread inside Trader.close(): "idle", "set", "stopped", "joined"
    cpc,          \* per caller: where it is inside Trader.order / wait_execution
    cargs,        \* per caller: the arguments of its call
    cloc,         \* per caller: the locals of its call
    cret,         \* per caller: what its call returned or raised
    rpc,          \* the reader thread: where it is inside a property read
    rloc,         \* its locals
    rret,         \* what its read returned or raised
    exch,         \* the exchange's own record of every order id
    nextSeq,      \* arrival number of the next event put on a queue
    clock,        \* the time, in seconds
    ghost,        \* history kept for the properties only
    gen,          \* the generator of get_symbols_as_updated: its position and locals
    pub,          \* a PublicData object, its transport queues and its one caller
    coin          \* a CoinAPI object: its candle queue, seen window and return queue

vars == <<orders, executed, wallets, prices, log, symbols, disconnect, queue,
          tickq, sent, cancels, stopped, dropped, wpc, widx, wops, kpc, cpc, cargs,
          cloc, cret, rpc, rloc, rret, exch, nextSeq, clock, ghost, gen, pub, coin>>

transportVars == <<stopped, dropped>>
storeVars  == <<orders, executed, wallets, prices, log>>
writerVars == <<wpc, widx, wops>>
callerVars == <<cpc, cargs, cloc, cret>>
readerVars == <<rpc, rloc, rret>>
pubVars    == <<gen, pub, coin>>

----------------------------------------------------------------------------
(* Bounds of the model *)

MaxId     == 3     \* the exchange hands out the order ids 1..MaxId
MaxEvents == 3     \* events the transport puts on the queues in one run
MaxClock  == 1     \* the clock runs from 0 to MaxClock
MaxWait   == 2     \* rounds of its loop a wait_execution bound (seconds) allows
MaxCalls  == 2     \* calls one caller makes in one run
MaxReads  == 1     \* reads the reader thread makes in one run
MaxExecutions == 101   \* executions of one run of the history scenario

(* Program constants *)

MaxOrderHistory == 100    \* deque(maxlen=100)
MinOrderValue   == 3500   \* _min_order_value = 35. (usd), in cents
PriceFloor      == 1      \* 0.01 (usd), in cents

Sources    == <<"Orders", "Order New", "Order Update", "Order Cancel", "Wallets">>
TradeTypes == {"market", "limit"}

Ids        == 1..MaxId
Callers    == {"c1"}
Threads    == {"c1", "c2"}   \* every thread that may call; c2 calls only next to c1
Symbols    == {"BTCUSD", "ETHUSD"}
Currencies == {"usd", "btc", "eth"}

----------------------------------------------------------------------------
(* Dictionaries in insertion order *)

KeySeq(d)     == [i \in 1..Len(d) |-> d[i][1]]
KeySet(d)     == {d[i][1] : i \in 1..Len(d)}
Has(d, k)     == k \in KeySet(d)
IndexOf(d, k) == CHOOSE i \in 1..Len(d) : d[i][1] = k
Get(d, k)     == d[IndexOf(d, k)][2]
Put(d, k, v)  == IF Has(d, k) THEN [d EXCEPT ![IndexOf(d, k)] = <<k, v>>]
                 ELSE Append(d, <<k, v>>)
\* a slip that leaves the key in the dictionary
Del_KeepsKey(d, k) == d
Del(d, k)     == SelectSeq(d, LAMBDA p : p[1] # k)

\* defaultdict(float).__getitem__: a missing key is inserted with 0.0
DefaultGet(d, k)   == IF Has(d, k) THEN Get(d, k) ELSE 0
DefaultTouch(d, k) == IF Has(d, k) THEN d ELSE Append(d, <<k, 0>>)

\* a slip that keeps the oldest entries and drops the new one at capacity
DequeAppend_KeepOldest(q, x) == IF Len(q) >= MaxOrderHistory THEN q ELSE Append(q, x)

\* deque(maxlen).append: at capacity the oldest entry is dropped
DequeAppend(q, x) == IF Len(q) >= MaxOrderHistory THEN Append(Tail(q), x)
                     ELSE Append(q, x)

----------------------------------------------------------------------------
(* The payloads of the push stream *)

\* An order datum is the 19-field array of the stream; the model keeps the
\* fields the code reads (datum[0], [3], [5], [6], [7], [13], [16], [17]).
\* shape says how the array is formed:
\*   "ok"     every field read is there and numeric where the code computes
\*   "arity"  the array is too short: datum[16] raises IndexError
\*   "nonnum" datum[6] or datum[7] is not a number: datum[7] - datum[6]
\*            raises TypeError
\* status is the status text as its sequence of words ("EXECUTED @ 50.0" is
\* <<"EXECUTED", "@">>, the empty text is << >>).
Datum(id, sym, mts, rem, amt, st, price, xprice, shape) ==
    [id |-> id, symbol |-> sym, mts |-> mts, remaining |-> rem, amount |-> amt,
     status |-> st, price |-> price, exec_price |-> xprice, shape |-> shape]

\* symbol[1:].upper()
SymbolOf(raw) == CASE raw = "tBTCUSD" -> "BTCUSD"
                   [] raw = "tETHUSD" -> "ETHUSD"
                   [] raw = "tbtcusd" -> "BTCUSD"
                   [] OTHER -> raw

\* symbol.lower().replace('usd', '')
CoinOf(symbol) == CASE symbol = "BTCUSD" -> "btc"
                    [] symbol = "ETHUSD" -> "eth"
                    [] OTHER -> symbol

\* currency.upper() + 'USD'
PairOf(currency) == CASE currency = "btc" -> "BTCUSD"
                      [] currency = "eth" -> "ETHUSD"
                      [] OTHER -> currency

\* str.lower() on the words of the stream and of the call arguments
Lower(w) == CASE w = "EXCHANGE" -> "exchange"
              [] w = "MARGIN"   -> "margin"
              [] w = "USD"      -> "usd"
              [] w = "BTC"      -> "btc"
              [] w = "ETH"      -> "eth"
              [] w = "MARKET"   -> "market"
              [] w = "LIMIT"    -> "limit"
              [] w = "STOP"     -> "stop"
              [] OTHER -> w

\* order['status'].startswith('CANCEL'), on the first word of a status text
StartsWithCancel(word) == word \in {"CANCEL", "CANCELED", "CANCELLED"}

\* cmd[0], the key of _Account._handlers
FirstChar(cmd) == CASE cmd \in {"os", "on", "ou", "oc"} -> "o"
                    [] cmd \in {"ws", "wu"} -> "w"
                    [] cmd \in {"tBTCUSD", "tETHUSD"} -> "t"
                    [] OTHER -> "?"

\* cmd[1:] of a ticker command
TickerSymbol(cmd) == CASE cmd = "tBTCUSD" -> "BTCUSD"
                       [] cmd = "tETHUSD" -> "ETHUSD"
                       [] OTHER -> cmd

\* _jsonify_orders raises on a datum (IndexError on a short array or on an
\* empty status text, TypeError on a non-numeric amount)
DatumRaises(d) == d.shape # "ok" \/ d.status = << >>

JsonifyRaises(data) == \E i \in 1..Len(data) : DatumRaises(data[i])

\* a slip that takes the remaining amount for the executed one
JsonifyOne_ExecutedIsRemaining(d) ==
    <<d.id,
      [symbol         |-> SymbolOf(d.symbol),
       price          |-> d.price,
       executed_price |-> d.exec_price,
       amount         |-> d.amount,
       executed       |-> d.remaining,
       remaining      |-> d.remaining,
       status         |-> Head(d.status),
       timestamp      |-> d.mts \div 1000]>>

JsonifyOne(d) ==
    <<d.id,
      [symbol         |-> SymbolOf(d.symbol),
       price          |-> d.price,
       executed_price |-> d.exec_price,
       amount         |-> d.amount,
       executed       |-> d.amount - d.remaining,
       remaining      |-> d.remaining,
       status         |-> Head(d.status),
       timestamp      |-> d.mts \div 1000]>>

Jsonify(data) == [i \in 1..Len(data) |-> JsonifyOne(data[i])]

\* sorted(orders, key=lambda t: t[1]['timestamp']): stable
RECURSIVE InsertByTs(_, _)
InsertByTs(sorted, x) ==
    IF sorted = << >> THEN <<x>>
    ELSE IF sorted[Len(sorted)][2].timestamp <= x[2].timestamp
         THEN Append(sorted, x)
         ELSE Append(InsertByTs(SubSeq(sorted, 1, Len(sorted) - 1), x),
                     sorted[Len(sorted)])

RECURSIVE SortByTs(_)
SortByTs(s) == IF s = << >> THEN << >>
               ELSE InsertByTs(SortByTs(SubSeq(s, 1, Len(s) - 1)), s[Len(s)])

----------------------------------------------------------------------------
(* The handlers, as the store operations an event stands for.  The writer  *)
(* carries them out one at a time, so a reader can run between two of      *)
(* them, as it can between two statements of a handler.                    *)
(*   <<"set", id, order, cmd>>   self._orders[_id] = order, and the SUBMIT *)
(*                               entry when cmd is 'on'                    *)
(*   <<"cancel", id, order>>     the CANCEL entry, then del if present     *)
(*   <<"execute", id, order>>    _executed_orders.append, the EXECUTE entry*)
(*   <<"remove", id>>            if _id in self._orders: del               *)
(*   <<"wallet", currency, b>>   self._wallets[currency] = float(b)        *)
(*   <<"price", symbol, p>>      self._prices[symbol] = weighted_mid       *)

HandleOrderUpdateOps(cmd, jorders) ==
    LET s == SortByTs(jorders)
    IN  [i \in 1..Len(s) |-> <<"set", s[i][1], s[i][2], cmd>>]

\* a slip that takes every close for an execution
HandleOrderCloseOps_AllExecuted(jorders) ==
    IF jorders = << >> THEN << >>
    ELSE <<<<"execute", jorders[1][1], jorders[1][2]>>, <<"remove", jorders[1][1]>>>>

RECURSIVE HandleOrderCloseOps(_)
HandleOrderCloseOps(jorders) ==
    IF jorders = << >> THEN << >>
    ELSE LET id == Head(jorders)[1]
             o  == Head(jorders)[2]
         IN  (IF StartsWithCancel(o.status)
              THEN <<<<"cancel", id, o>>>>
              ELSE <<<<"execute", id, o>>, <<"remove", id>>>>)
             \o HandleOrderCloseOps(Tail(jorders))

HandleOrder(cmd, data) ==
    LET list == IF cmd # "os" THEN <<data>> ELSE data
    IN  IF JsonifyRaises(list) THEN [raised |-> TRUE, ops |-> << >>]
        ELSE IF cmd \in {"os", "on", "ou"}
             THEN [raised |-> FALSE, ops |-> HandleOrderUpdateOps(cmd, Jsonify(list))]
             ELSE [raised |-> FALSE, ops |-> HandleOrderCloseOps(Jsonify(list))]

\* a wallet entry is [type, currency, balance, ...]
\* a slip that takes every entry of the snapshot, whatever its wallet type
HandleWallet_AllTypes(cmd, data) ==
    IF cmd = "ws"
    THEN [raised |-> FALSE,
          ops |-> [i \in 1..Len(data) |-> <<"wallet", Lower(data[i].currency), data[i].balance>>]]
    ELSE IF cmd = "wu"
         THEN [raised |-> FALSE,
               ops |-> <<<<"wallet", Lower(data.currency), data.balance>>>>]
         ELSE [raised |-> FALSE, ops |-> << >>]

HandleWallet(cmd, data) ==
    IF cmd = "ws"
    THEN LET ex == SelectSeq(data, LAMBDA w : Lower(w.wtype) = "exchange")
         IN  [raised |-> FALSE,
              ops |-> [i \in 1..Len(ex) |-> <<"wallet", Lower(ex[i].currency), ex[i].balance>>]]
    ELSE IF cmd = "wu"
         THEN [raised |-> FALSE,
               ops |-> <<<<"wallet", Lower(data.currency), data.balance>>>>]
         ELSE [raised |-> FALSE, ops |-> << >>]

\* a ticker datum is data[0] = [bid, bid_size, ask, ask_size, ...]; the
\* weighted mid divides by bid_size + ask_size (ZeroDivisionError at 0)
WeightedMid(t) == (t.bid * t.bid_size + t.ask * t.ask_size) \div (t.bid_size + t.ask_size)

\* a slip that writes the price under every symbol
HandleTicker_EverySymbol(cmd, data) ==
    IF data.bid_size + data.ask_size = 0 THEN [raised |-> TRUE, ops |-> << >>]
    ELSE [raised |-> FALSE, ops |-> <<<<"price", "BTCUSD", WeightedMid(data)>>,
                                      <<"price", "ETHUSD", WeightedMid(data)>>>>]
HandleTicker(cmd, data) ==
    IF data.bid_size + data.ask_size = 0 THEN [raised |-> TRUE, ops |-> << >>]
    ELSE [raised |-> FALSE, ops |-> <<<<"price", TickerSymbol(cmd), WeightedMid(data)>>>>]

\* _Account._update: self._handlers[cmd[0]](cmd, data); KeyError on a tag
\* that is none of 'o', 't', 'w'
Update(cmd, data) ==
    CASE FirstChar(cmd) = "o" -> HandleOrder(cmd, data)
      [] FirstChar(cmd) = "w" -> HandleWallet(cmd, data)
      [] FirstChar(cmd) = "t" -> HandleTicker(cmd, data)
      [] OTHER -> [raised |-> TRUE, ops |-> << >>]

\* _log_order(action, _id, ...): the audit entry
LogEntry(action, id) == <<action, id>>

\* one store operation, as the new store
ApplyOp(op, S) ==
    CASE op[1] = "set" ->
           [S EXCEPT !.orders = Put(S.orders, op[2], op[3]),
                     !.log = IF op[4] = "on" THEN Append(S.log, LogEntry("SUBMIT", op[2]))
                             ELSE S.log]
      [] op[1] = "cancel" ->
           [S EXCEPT !.log = Append(S.log, LogEntry("CANCEL", op[2])),
                     !.orders = IF Has(S.orders, op[2]) THEN Del(S.orders, op[2])
                                ELSE S.orders]
      [] op[1] = "execute" ->
           [S EXCEPT !.executed = DequeAppend(S.executed, <<op[2], op[3]>>),
                     !.log = Append(S.log, LogEntry("EXECUTE", op[2]))]
      [] op[1] = "remove" ->
           [S EXCEPT !.orders = IF Has(S.orders, op[2]) THEN Del(S.orders, op[2])
                                ELSE S.orders]
      [] op[1] = "wallet" ->
           [S EXCEPT !.wallets = Put(S.wallets, op[2], op[3])]
      [] op[1] = "price" ->
           [S EXCEPT !.prices = Put(S.prices, op[2], op[3])]

Store == [orders |-> orders, executed |-> executed, wallets |-> wallets,
          prices |-> prices, log |-> log]

----------------------------------------------------------------------------
(* The transport and the exchange behind it.  The transport puts every     *)
(* event (cmd, data) on the queue of its topic in the order it arrived     *)
(* from the stream; seq is that arrival number.                            *)

RouteOf(cmd) == CASE cmd = "os" -> "Orders"
                  [] cmd = "on" -> "Order New"
                  [] cmd = "ou" -> "Order Update"
                  [] cmd = "oc" -> "Order Cancel"
                  [] OTHER -> "Wallets"

Event(cmd, data) == [cmd |-> cmd, data |-> data, seq |-> nextSeq]

Connected == wpc # "off" /\ ~stopped /\ ~dropped

CanDeliver == Connected /\ nextSeq <= MaxEvents

Deliver(cmd, data) ==
    /\ queue' = [queue EXCEPT ![RouteOf(cmd)] = Append(@, Event(cmd, data))]
    /\ nextSeq' = nextSeq + 1

NoDatum == Datum(0, "tBTCUSD", 0, 0, 0, <<"ACTIVE">>, 0, 0, "ok")

FreshIds == {i \in Ids : exch[i].st = "none" /\ \A j \in Ids : j < i => exch[j].st # "none"}

OpenOnExchange == {i \in Ids : exch[i].st = "open"}

\* the order ids an event is about
EventIds(e) == IF e.cmd = "os" THEN {e.data[i].id : i \in 1..Len(e.data)}
               ELSE IF e.cmd \in {"on", "ou", "oc"} THEN {e.data.id}
               ELSE {}

\* The exchange accepts new_order call j of the transport: the order gets
\* the next id, and the 'on' event is sent.
ExchAccept(j) ==
    /\ CanDeliver
    /\ j \in (1..Len(sent)) \ ghost.accepted
    /\ \E id \in FreshIds :
         LET d == Datum(id, sent[j].symbol, clock * 1000, sent[j].amount,
                        sent[j].amount, <<"ACTIVE">>, sent[j].price, 0, "ok")
         IN  /\ exch' = [exch EXCEPT ![id] = [st |-> "open", cmd |-> "on", d |-> d, out |-> TRUE]]
             /\ Deliver("on", d)
             /\ ghost' = [ghost EXCEPT !.accepted = @ \cup {j},
                                       !.mine[sent[j].caller] = id]
    /\ UNCHANGED <<pubVars, storeVars, symbols, disconnect, tickq, sent, cancels, transportVars,
                   writerVars, kpc, callerVars, readerVars, clock>>

\* The exchange accepts new_order call j and fills it at once: the only
\* event of the order is its close event.
ExchAcceptFilled(j) ==
    /\ CanDeliver
    /\ j \in (1..Len(sent)) \ ghost.accepted
    /\ \E id \in FreshIds :
         LET d == Datum(id, sent[j].symbol, clock * 1000, 0, sent[j].amount,
                        <<"EXECUTED", "@">>, sent[j].price, sent[j].price, "ok")
         IN  /\ exch' = [exch EXCEPT ![id] = [st |-> "closed", cmd |-> "oc", d |-> d, out |-> TRUE]]
             /\ Deliver("oc", d)
             /\ ghost' = [ghost EXCEPT !.accepted = @ \cup {j},
                                       !.mine[sent[j].caller] = id]
    /\ UNCHANGED <<pubVars, storeVars, symbols, disconnect, tickq, sent, cancels, transportVars,
                   writerVars, kpc, callerVars, readerVars, clock>>

\* An order placed through another session of the account.  Before the
\* client connects it is only recorded by the exchange (it shows in the
\* 'os' snapshot); afterwards its 'on' event is sent.
ExchForeign(amt, price) ==
    /\ ~stopped
    /\ ~dropped
    /\ wpc # "off" => nextSeq <= MaxEvents
    /\ \E id \in FreshIds :
         LET d == Datum(id, "tBTCUSD", clock * 1000, amt, amt, <<"ACTIVE">>, price, 0, "ok")
         IN  /\ exch' = [exch EXCEPT ![id] = [st |-> "open", cmd |-> "on", d |-> d, out |-> wpc # "off"]]
             /\ IF wpc # "off" THEN Deliver("on", d)
                ELSE UNCHANGED <<queue, nextSeq>>
    /\ UNCHANGED <<pubVars, storeVars, symbols, disconnect, tickq, sent, cancels, transportVars,
                   writerVars, kpc, callerVars, readerVars, clock, ghost>>

\* The snapshot of the open orders the exchange sends after authentication.
ExchSnapshot ==
    /\ CanDeliver
    /\ ~ghost.snapshot
    /\ LET ids  == OpenOnExchange
           list == [i \in 1..Cardinality(ids) |->
                      exch[CHOOSE id \in ids : Cardinality({k \in ids : k < id}) = i - 1].d]
       IN  Deliver("os", list)
    /\ ghost' = [ghost EXCEPT !.snapshot = TRUE]
    /\ UNCHANGED <<pubVars, storeVars, symbols, disconnect, tickq, sent, cancels, transportVars,
                   writerVars, kpc, callerVars, readerVars, exch, clock>>

\* A partial fill of an open order: half of it stays.
ExchFill(id) ==
    /\ CanDeliver
    /\ exch[id].st = "open"
    /\ exch[id].d.remaining = exch[id].d.amount
    /\ LET d == [exch[id].d EXCEPT !.remaining = exch[id].d.amount \div 2,
                                   !.status = <<"PARTIALLY", "FILLED">>,
                                   !.exec_price = exch[id].d.price]
       IN  /\ exch' = [exch EXCEPT ![id] = [st |-> "open", cmd |-> "ou", d |-> d, out |-> TRUE]]
           /\ Deliver("ou", d)
    /\ UNCHANGED <<pubVars, storeVars, symbols, disconnect, tickq, sent, cancels, transportVars,
                   writerVars, kpc, callerVars, readerVars, clock, ghost>>

\* An open order is filled and closed.
ExchExecute(id) ==
    /\ CanDeliver
    /\ exch[id].st = "open"
    /\ LET d == [exch[id].d EXCEPT !.remaining = 0,
                                   !.status = <<"EXECUTED", "@">>,
                                   !.exec_price = exch[id].d.price]
       IN  /\ exch' = [exch EXCEPT ![id] = [st |-> "closed", cmd |-> "oc", d |-> d, out |-> TRUE]]
           /\ Deliver("oc", d)
    /\ UNCHANGED <<pubVars, storeVars, symbols, disconnect, tickq, sent, cancels, transportVars,
                   writerVars, kpc, callerVars, readerVars, clock, ghost>>

\* An open order is cancelled and closed.
ExchCancel(id) ==
    /\ CanDeliver
    /\ exch[id].st = "open"
    /\ LET d == [exch[id].d EXCEPT !.status = <<"CANCELED">>]
       IN  /\ exch' = [exch EXCEPT ![id] = [st |-> "closed", cmd |-> "oc", d |-> d, out |-> TRUE]]
           /\ Deliver("oc", d)
    /\ UNCHANGED <<pubVars, storeVars, symbols, disconnect, tickq, sent, cancels, transportVars,
                   writerVars, kpc, callerVars, readerVars, clock, ghost>>

\* At-least-once delivery: the latest event of an order arrives once more.
Redeliver(id) ==
    /\ CanDeliver
    /\ exch[id].st # "none"
    /\ exch[id].out
    /\ Deliver(exch[id].cmd, exch[id].d)
    /\ UNCHANGED <<pubVars, storeVars, symbols, disconnect, tickq, sent, cancels, transportVars,
                   writerVars, kpc, callerVars, readerVars, exch, clock, ghost>>

\* A malformed event about an order: a short array, a non-numeric amount or
\* an empty status text, under any of the single-order commands.
DeliverMalformed(cmd, id, shape, status) ==
    /\ CanDeliver
    /\ exch[id].st # "none"
    /\ Deliver(cmd, [exch[id].d EXCEPT !.shape = shape, !.status = status])
    /\ UNCHANGED <<pubVars, storeVars, symbols, disconnect, tickq, sent, cancels, transportVars,
                   writerVars, kpc, callerVars, readerVars, exch, clock, ghost>>

\* Wallet events: the snapshot lists [type, currency, balance] entries, the
\* update is one such entry.
WalletEntry(t, c, b) == [wtype |-> t, currency |-> c, balance |-> b]

ExchWalletSnapshot(list) ==
    /\ CanDeliver
    /\ Deliver("ws", list)
    /\ UNCHANGED <<pubVars, storeVars, symbols, disconnect, tickq, sent, cancels, transportVars,
                   writerVars, kpc, callerVars, readerVars, exch, clock, ghost>>

ExchWalletUpdate(w) ==
    /\ CanDeliver
    /\ Deliver("wu", w)
    /\ UNCHANGED <<pubVars, storeVars, symbols, disconnect, tickq, sent, cancels, transportVars,
                   writerVars, kpc, callerVars, readerVars, exch, clock, ghost>>

\* A tick of a subscribed symbol.
ExchTick(sym, t) ==
    /\ CanDeliver
    /\ \E i \in 1..Len(symbols) : symbols[i] = sym
    /\ tickq' = [tickq EXCEPT ![sym] = Append(@, [cmd |-> "t", data |-> t, seq |-> nextSeq])]
    /\ nextSeq' = nextSeq + 1
    /\ UNCHANGED <<pubVars, storeVars, symbols, disconnect, queue, sent, cancels, transportVars,
                   writerVars, kpc, callerVars, readerVars, exch, clock, ghost>>

Tick ==
    /\ clock < MaxClock
    /\ clock' = clock + 1
    /\ UNCHANGED <<pubVars, storeVars, symbols, disconnect, queue, tickq, sent, cancels,
                   transportVars, writerVars, kpc, callerVars, readerVars, exch, nextSeq, ghost>>

----------------------------------------------------------------------------
(* Derived metrics, as functions of a store state.  The reader below       *)
(* computes them statement by statement with the same steps.               *)

\* a slip that takes the amount of a buy, not its value, off the usd balance
ABStep_AmountOffUsd(bal, o) ==
    IF o.remaining < 0
    THEN Put(bal, CoinOf(o.symbol), DefaultGet(bal, CoinOf(o.symbol)) + o.remaining)
    ELSE Put(bal, "usd", DefaultGet(bal, "usd") - o.remaining)

\* the body of the loop of available_balances over one order
ABStep(bal, o) ==
    IF o.remaining < 0
    THEN Put(bal, CoinOf(o.symbol), DefaultGet(bal, CoinOf(o.symbol)) + o.remaining)
    ELSE Put(bal, "usd", DefaultGet(bal, "usd") - o.remaining * o.price)

RECURSIVE ABFold(_, _, _)
ABFold(bal, os, i) == IF i > Len(os) THEN bal ELSE ABFold(ABStep(bal, os[i][2]), os, i + 1)

\* _Account.available_balances on wallets w and open orders os; round(x, 8)
\* keeps a value that is on the grid of the model
AvailableBalances(w, os) == ABFold(w, os, 1)

\* a slip that adds the balance of a coin without its price
ValStep_Unpriced(total, cur, amount, p) == total + amount

\* the body of the loop of value over one wallet entry
ValStep(total, cur, amount, p) ==
    total + (IF cur # "usd" THEN amount * DefaultGet(p, PairOf(cur)) ELSE amount)

RECURSIVE ValFold(_, _, _, _)
ValFold(total, w, p, i) ==
    IF i > Len(w) THEN total ELSE ValFold(ValStep(total, w[i][1], w[i][2], p), w, p, i + 1)

\* _Account.value on wallets w and prices p, in cents
Value(w, p) == ValFold(0, w, p, 1)

\* the prices map after value has read self._prices[currency.upper() + 'USD']
\* for every wallet currency but usd: defaultdict inserts the missing keys
RECURSIVE TouchPrices(_, _, _)
TouchPrices(w, p, i) ==
    IF i > Len(w) THEN p
    ELSE TouchPrices(w, IF w[i][1] # "usd" THEN DefaultTouch(p, PairOf(w[i][1])) ELSE p, i + 1)

\* Trader.position of trade.py:
\* (wallets[coin] * prices[symbol] - wallets['usd']) / value, in percent
PositionTrade(w, p, symbol) ==
    ((DefaultGet(w, CoinOf(symbol)) * DefaultGet(p, symbol) - DefaultGet(w, "usd")) * 100)
        \div Value(w, p)

\* a slip that takes the usd balance off the value of the coin
PositionOf_NetOfUsd(w, p, symbol) ==
    ((DefaultGet(w, CoinOf(symbol)) * DefaultGet(p, symbol) - DefaultGet(w, "usd")) * 100)
        \div Value(w, p)

\* one entry of positions: wallets[coin] * prices[symbol] / value, in percent
PositionOf(w, p, symbol) ==
    (DefaultGet(w, CoinOf(symbol)) * DefaultGet(p, symbol) * 100) \div Value(w, p)

----------------------------------------------------------------------------
(* The receiver thread, Trader._receive: the only writer of the store.     *)

\* what a reader that is iterating self._orders.values() notices: the
\* OrderedDict iterator raises when a key was added or deleted since it was
\* made and it still has a key to deliver
Structural(op) ==
    CASE op[1] = "set" -> ~Has(orders, op[2])
      [] op[1] \in {"cancel", "remove"} -> Has(orders, op[2])
      [] OTHER -> FALSE

\* the label under which an operation counts as "an event was applied"
OpLabel(op) == CASE op[1] = "set" -> <<op[4], op[2]>>
                 [] op[1] = "cancel" -> <<"oc_cancel", op[2]>>
                 [] op[1] = "execute" -> <<"oc_execute", op[2]>>
                 [] OTHER -> <<"none", 0>>

InCorrelation(c) == cpc[c] \in {"snap_exec", "submit", "poll", "poll_exec", "poll_ret"}

ReaderActive == rpc \in {"ab_copy", "ab_iter", "val_iter", "pos_iter"}

View(S) == [orders |-> S.orders, wallets |-> S.wallets, prices |-> S.prices]

\* while not self._disconnect_event.is_set()
WriterTop ==
    /\ wpc = "top"
    /\ wops = << >>
    /\ IF disconnect THEN wpc' = "done" /\ widx' = widx
       ELSE wpc' = "poll" /\ widx' = 1
    /\ UNCHANGED <<pubVars, storeVars, symbols, disconnect, queue, tickq, sent, cancels, transportVars,
                   wops, kpc, callerVars, readerVars, exch, nextSeq, clock, ghost>>

TickerCmd(symbol) == CASE symbol = "BTCUSD" -> "tBTCUSD"
                       [] symbol = "ETHUSD" -> "tETHUSD"
                       [] OTHER -> symbol

\* one get_nowait of the cycle: an empty queue is skipped (suppress(Empty));
\* an event is taken and handed to _update; whatever _update raises ends
\* the thread
WriterPoll ==
    /\ wpc = "poll"
    /\ wops = << >>
    /\ LET n      == Len(Sources) + Len(symbols)
           acct   == widx <= Len(Sources)
           q      == IF acct THEN queue[Sources[widx]] ELSE tickq[symbols[widx - Len(Sources)]]
           ev     == Head(q)
           cmd    == IF acct THEN ev.cmd ELSE TickerCmd(symbols[widx - Len(Sources)])
           r      == Update(cmd, ev.data)
           last   == widx >= n
       IN  /\ IF q = << >>
              THEN /\ UNCHANGED <<queue, tickq, wops, ghost>>
                   /\ wpc' = IF last THEN "top" ELSE "poll"
              ELSE /\ IF acct
                      THEN queue' = [queue EXCEPT ![Sources[widx]] = Tail(q)] /\ tickq' = tickq
                      ELSE tickq' = [tickq EXCEPT ![symbols[widx - Len(Sources)]] = Tail(q)]
                           /\ queue' = queue
                   /\ IF r.raised
                      THEN wpc' = "dead" /\ wops' = << >> /\ ghost' = ghost
                      ELSE /\ wpc' = IF last THEN "top" ELSE "poll"
                           /\ wops' = r.ops
                           /\ ghost' = [ghost EXCEPT
                                          !.appliedMax =
                                            [i \in Ids |-> IF acct /\ i \in EventIds(ev)
                                                           THEN ev.seq ELSE @[i]],
                                          !.closedMax =
                                            [i \in Ids |-> IF acct /\ ev.cmd = "oc"
                                                              /\ i \in EventIds(ev)
                                                           THEN ev.seq ELSE @[i]]]
           /\ widx' = IF last THEN widx ELSE widx + 1
    /\ UNCHANGED <<pubVars, storeVars, symbols, disconnect, sent, cancels, transportVars,
                   kpc, callerVars, readerVars, exch, nextSeq, clock>>

\* the next store operation of the event being applied
WriterApply ==
    /\ wpc \in {"poll", "top"}
    /\ wops # << >>
    /\ LET op == Head(wops)
           S  == ApplyOp(op, Store)
       IN  /\ orders' = S.orders
           /\ executed' = S.executed
           /\ wallets' = S.wallets
           /\ prices' = S.prices
           /\ log' = S.log
           /\ rloc' = IF rpc = "ab_iter" /\ Structural(op) THEN [rloc EXCEPT !.dirty = TRUE]
                      ELSE rloc
           /\ ghost' = [ghost EXCEPT
                          !.capplied = [c \in Threads |->
                                          IF InCorrelation(c) /\ OpLabel(op)[1] # "none"
                                          THEN @[c] \cup {OpLabel(op)} ELSE @[c]],
                          !.rseen = IF ReaderActive THEN @ \cup {View(S)} ELSE @]
    /\ wops' = Tail(wops)
    /\ UNCHANGED <<pubVars, symbols, disconnect, queue, tickq, sent, cancels, transportVars, wpc, widx,
                   kpc, callerVars, rpc, rret, exch, nextSeq, clock>>

\* The connection of the transport drops: from then on the transport puts
\* nothing on its queues.  Nothing in Trader reads the state of the
\* connection after connect() has returned.
TransportDrop ==
    /\ Connected
    /\ dropped' = TRUE
    /\ UNCHANGED <<pubVars, stopped, storeVars, symbols, disconnect, queue, tickq, sent, cancels,
                   writerVars, kpc, callerVars, readerVars, exch, nextSeq, clock, ghost>>

----------------------------------------------------------------------------
(* connect, subscribe, close *)

\* Trader.connect: the transport is started and authenticated, the receiver
\* thread is started.  The exchange answers the authentication with the
\* snapshot ws of the wallets, which the transport puts on 'Wallets'.
Connect(ws) ==
    /\ wpc = "off"
    /\ wpc' = "top"
    /\ queue' = [queue EXCEPT !["Wallets"] = Append(@, [cmd |-> "ws", data |-> ws, seq |-> 0])]
    /\ UNCHANGED <<pubVars, storeVars, symbols, disconnect, tickq, sent, cancels, transportVars,
                   widx, wops, kpc, callerVars, readerVars, exch, nextSeq, clock, ghost>>

\* Trader.subscribe
Subscribe(sym) ==
    /\ wpc # "off"
    /\ ~stopped
    /\ \A i \in 1..Len(symbols) : symbols[i] # sym
    /\ symbols' = Append(symbols, sym)
    /\ UNCHANGED <<pubVars, storeVars, disconnect, queue, tickq, sent, cancels, transportVars,
                   writerVars, kpc, callerVars, readerVars, exch, nextSeq, clock, ghost>>

\* Trader.close, statement by statement
CloseSet ==
    /\ kpc = "idle"
    /\ wpc # "off"
    /\ disconnect' = TRUE
    /\ kpc' = "set"
    /\ UNCHANGED <<pubVars, storeVars, symbols, queue, tickq, sent, cancels, transportVars,
                   writerVars, callerVars, readerVars, exch, nextSeq, clock, ghost>>

\* the unsubscribe calls and wss.stop()
CloseStop ==
    /\ kpc = "set"
    /\ stopped' = TRUE
    /\ kpc' = "stopped"
    /\ UNCHANGED <<pubVars, dropped, storeVars, symbols, disconnect, queue, tickq, sent, cancels,
                   writerVars, callerVars, readerVars, exch, nextSeq, clock, ghost>>

\* self._receiver.join() returns once the receiver thread has ended
CloseJoin ==
    /\ kpc = "stopped"
    /\ wpc \in {"done", "dead"}
    /\ kpc' = "joined"
    /\ UNCHANGED <<pubVars, storeVars, symbols, disconnect, queue, tickq, sent, cancels, transportVars,
                   writerVars, callerVars, readerVars, exch, nextSeq, clock, ghost>>

----------------------------------------------------------------------------
(* Trader.order.  An optional argument is << >> when it is None and <<v>>  *)
(* when it has the value v; the price argument is << >> for the sentinel   *)
(* 'market'.                                                               *)

Truthy(a) == a # << >> /\ a[1] # 0

OrderArgs(symbol, price, dollar, ratio, vratio, ttype, pad, rid) ==
    [symbol |-> symbol, price |-> price, dollar_amount |-> dollar, ratio |-> ratio,
     value_ratio |-> vratio, trade_type |-> ttype, pad_price |-> pad, return_id |-> rid]

NoArgs == OrderArgs("BTCUSD", <<0>>, << >>, << >>, << >>, "limit", << >>, TRUE)

\* the three assertions on the arguments (lines 278-283)
ArgsAccepted(a) ==
    /\ Truthy(a.dollar_amount) \/ Truthy(a.ratio) \/ Truthy(a.value_ratio)
    /\ Cardinality({m \in {"d", "r", "v"} :
                      Truthy(CASE m = "d" -> a.dollar_amount
                               [] m = "r" -> a.ratio
                               [] m = "v" -> a.value_ratio)}) = 1
    /\ Lower(a.trade_type) \in TradeTypes

\* symbol.upper().split('USD')[0] + 'USD'
NormSymbol(symbol) == CASE symbol \in {"BTCUSD", "btcusd", "BTC", "btc"} -> "BTCUSD"
                        [] symbol \in {"ETHUSD", "ethusd", "ETH", "eth"} -> "ETHUSD"
                        [] OTHER -> symbol

\* symbol.lower().replace('usd', '') of the symbol as given
SymbolLower(symbol) == CoinOf(NormSymbol(symbol))

\* dollar_amount or ratio or value_ratio: the first that is truthy
SizingValue(a) == IF Truthy(a.dollar_amount) THEN a.dollar_amount[1]
                  ELSE IF Truthy(a.ratio) THEN a.ratio[1]
                  ELSE a.value_ratio[1]

Buying(a) == SizingValue(a) > 0

\* price == 'market' or trade_type == 'market'
MarketPriced(a) == a.price = << >> \/ a.trade_type = "market"

Max2(x, y) == IF x >= y THEN x ELSE y
Min2(x, y) == IF x <= y THEN x ELSE y
Abs(x)     == IF x < 0 THEN -x ELSE x

\* round(a / b, 8) for b > 0, on the grid of the model: to the nearest
\* unit, a tie to the even one
RoundDiv(a, b) ==
    LET q == a \div b
        r == a % b
    IN  IF 2 * r < b THEN q
        ELSE IF 2 * r > b THEN q + 1
        ELSE IF q % 2 = 0 THEN q ELSE q + 1

\* a slip that adds the padding for a sell as for a buy
ResolvedPrice_PadAdded(a, p) ==
    LET base  == IF MarketPriced(a) THEN DefaultGet(p, NormSymbol(a.symbol)) ELSE a.price[1]
        delta == IF Truthy(a.pad_price) THEN (base * a.pad_price[1]) \div 100 ELSE 0
    IN  IF Truthy(a.pad_price) THEN base + Max2(delta, PriceFloor) ELSE base

\* the price after lines 289-295; a pad_price is a percentage
ResolvedPrice(a, p) ==
    LET base  == IF MarketPriced(a) THEN DefaultGet(p, NormSymbol(a.symbol)) ELSE a.price[1]
        delta == IF Truthy(a.pad_price) THEN (base * a.pad_price[1]) \div 100 ELSE 0
    IN  IF Truthy(a.pad_price)
        THEN base + (IF Buying(a) THEN Max2(delta, PriceFloor) ELSE Min2(-delta, -PriceFloor))
        ELSE base

ResolvedType(a) == IF MarketPriced(a) THEN "market" ELSE a.trade_type

\* a slip that takes the coin balance as the most a buy can take
Sizing_MaxIsCoin(a, pr, avail, val) ==
    LET maxNum == DefaultGet(avail, SymbolLower(a.symbol))
        amount ==
          IF Truthy(a.dollar_amount) THEN RoundDiv(a.dollar_amount[1], pr)
          ELSE IF Truthy(a.ratio) THEN RoundDiv(maxNum * a.ratio[1], 100)
          ELSE RoundDiv(val * a.value_ratio[1], 100 * pr)
    IN  [amount |-> amount, max_amount |-> maxNum]

\* the amount and max_amount of lines 298-310 for the price pr (> 0), both
\* rounded; avail is available_balances, val is value
Sizing(a, pr, avail, val) ==
    LET availUsd  == DefaultGet(avail, "usd")
        availCoin == DefaultGet(avail, SymbolLower(a.symbol))
        \* max_amount as the fraction maxNum / maxDen
        maxNum == IF Buying(a) THEN availUsd ELSE availCoin
        maxDen == IF Buying(a) THEN pr ELSE 1
        amount ==
          IF Truthy(a.dollar_amount) THEN RoundDiv(a.dollar_amount[1], pr)
          ELSE IF Truthy(a.ratio) THEN RoundDiv(maxNum * a.ratio[1], maxDen * 100)
          ELSE \* min(max(-max_amount, value * value_ratio / price), max_amount)
               LET xNum == val * a.value_ratio[1]
                   xDen == 100 * pr
                   lo   == IF -maxNum * xDen >= xNum * maxDen
                           THEN [n |-> -maxNum, d |-> maxDen] ELSE [n |-> xNum, d |-> xDen]
                   hi   == IF lo.n * maxDen <= maxNum * lo.d
                           THEN lo ELSE [n |-> maxNum, d |-> maxDen]
               IN  RoundDiv(hi.n, hi.d)
    IN  [amount |-> amount, max_amount |-> RoundDiv(maxNum, maxDen)]

\* upper() of the trade type, in the type string of the transport call
TypeString(t) == CASE Lower(t) = "market" -> "EXCHANGE MARKET"
                   [] Lower(t) = "limit" -> "EXCHANGE LIMIT"
                   [] OTHER -> "EXCHANGE"

RawSymbol(symbol) == CASE symbol = "BTCUSD" -> "tBTCUSD"
                       [] symbol = "ETHUSD" -> "tETHUSD"
                       [] OTHER -> symbol

NoOrder == JsonifyOne(NoDatum)[2]

NoLocals == [symbol |-> "BTCUSD", price |-> 0, amount |-> 0, ttype |-> "limit",
             ids |-> {}, last |-> 0, wid |-> 0, left |-> 0]

NoResult == [kind |-> "none", id |-> 0, err |-> "", trade |-> NoOrder]

Raise(c, err) == cret' = [cret EXCEPT ![c] = [NoResult EXCEPT !.kind = "raise", !.err = err]]

\* Lines 278-317: the assertions on the arguments, the price, the sizing
\* and its two assertions.  The reads of prices, available_balances and
\* value are taken at one instant.  A call that passes goes on to take the
\* snapshot of line 319.
OrderCall(c, a) ==
    /\ cpc[c] = "idle"
    /\ ghost.calls[c] < MaxCalls
    /\ cargs' = [cargs EXCEPT ![c] = a]
    /\ ghost' = [ghost EXCEPT !.calls[c] = @ + 1, !.csent[c] = 0, !.capplied[c] = {},
                              !.mine[c] = 0, !.cop[c] = "order"]
    /\ IF ~ArgsAccepted(a)
       THEN /\ Raise(c, "AssertionError")
            /\ cpc' = [cpc EXCEPT ![c] = "done"]
            /\ UNCHANGED <<prices, cloc>>
       ELSE LET p1    == IF MarketPriced(a) THEN DefaultTouch(prices, NormSymbol(a.symbol))
                         ELSE prices
                pr    == ResolvedPrice(a, prices)
                usesV == ~Truthy(a.dollar_amount) /\ ~Truthy(a.ratio)
                p2    == IF usesV /\ pr >= PriceFloor THEN TouchPrices(wallets, p1, 1) ELSE p1
                sz    == Sizing(a, pr, AvailableBalances(wallets, orders), Value(wallets, prices))
            IN  IF pr < PriceFloor
                THEN /\ Raise(c, "AssertionError")
                     /\ cpc' = [cpc EXCEPT ![c] = "done"]
                     /\ prices' = p1
                     /\ UNCHANGED cloc
                ELSE /\ prices' = p2
                     /\ IF Abs(sz.amount) * pr >= MinOrderValue /\ Abs(sz.amount) <= sz.max_amount
                        THEN /\ cpc' = [cpc EXCEPT ![c] = "snap_ids"]
                             /\ cret' = [cret EXCEPT ![c] = NoResult]
                             /\ cloc' = [cloc EXCEPT ![c] =
                                           [NoLocals EXCEPT !.symbol = NormSymbol(a.symbol),
                                                            !.price = pr,
                                                            !.amount = sz.amount,
                                                            !.ttype = ResolvedType(a)]]
                        ELSE /\ Raise(c, "AssertionError")
                             /\ cpc' = [cpc EXCEPT ![c] = "done"]
                             /\ UNCHANGED cloc
    /\ UNCHANGED <<pubVars, orders, executed, wallets, log, symbols, disconnect, queue, tickq, sent,
                   cancels, transportVars, writerVars, kpc, readerVars, exch, nextSeq, clock>>

\* line 319: current_order_ids = set(self._orders.keys())
SnapIds(c) ==
    /\ cpc[c] = "snap_ids"
    /\ cloc' = [cloc EXCEPT ![c].ids = KeySet(orders)]
    /\ cpc' = [cpc EXCEPT ![c] = "snap_exec"]
    /\ UNCHANGED <<pubVars, storeVars, symbols, disconnect, queue, tickq, sent, cancels, transportVars,
                   writerVars, kpc, cargs, cret, readerVars, exch, nextSeq, clock, ghost>>

\* a slip that reads the oldest entry of the history instead of the latest
LastExecutedId_Oldest(q) == IF Len(q) = 0 THEN 0 ELSE q[1][1]

\* lines 320-323: last_executed_id, None (0 here) when the history is empty
LastExecutedId(q) == IF Len(q) = 0 THEN 0 ELSE q[Len(q)][1]

SnapExec(c) ==
    /\ cpc[c] = "snap_exec"
    /\ cloc' = [cloc EXCEPT ![c].last = LastExecutedId(executed)]
    /\ cpc' = [cpc EXCEPT ![c] = "submit"]
    /\ UNCHANGED <<pubVars, storeVars, symbols, disconnect, queue, tickq, sent, cancels, transportVars,
                   writerVars, kpc, cargs, cret, readerVars, exch, nextSeq, clock, ghost>>

\* lines 325-331: self.wss.new_order(...); without return_id the call
\* returns None
Submit(c) ==
    /\ cpc[c] = "submit"
    /\ sent' = Append(sent, [caller |-> c, type |-> TypeString(cloc[c].ttype),
                             symbol |-> RawSymbol(cloc[c].symbol),
                             amount |-> cloc[c].amount, price |-> cloc[c].price])
    /\ ghost' = [ghost EXCEPT !.csent[c] = @ + 1]
    /\ IF cargs[c].return_id
       THEN cpc' = [cpc EXCEPT ![c] = "poll"] /\ cret' = cret
       ELSE /\ cpc' = [cpc EXCEPT ![c] = "done"]
            /\ cret' = [cret EXCEPT ![c] = [NoResult EXCEPT !.kind = "return"]]
    /\ UNCHANGED <<pubVars, storeVars, symbols, disconnect, queue, tickq, cancels, transportVars,
                   writerVars, kpc, cargs, cloc, readerVars, exch, nextSeq, clock>>

\* lines 334-337: the first key of a copy of _orders that is not in the
\* snapshot
UnseenIds(os, ids) == SelectSeq(KeySeq(os), LAMBDA k : k \notin ids)

Poll(c) ==
    /\ cpc[c] = "poll"
    /\ IF UnseenIds(orders, cloc[c].ids) # << >>
       THEN /\ cpc' = [cpc EXCEPT ![c] = "done"]
            /\ cret' = [cret EXCEPT ![c] = [NoResult EXCEPT !.kind = "return",
                                               !.id = Head(UnseenIds(orders, cloc[c].ids))]]
       ELSE /\ cpc' = [cpc EXCEPT ![c] = "poll_exec"]
            /\ cret' = cret
    /\ UNCHANGED <<pubVars, storeVars, symbols, disconnect, queue, tickq, sent, cancels, transportVars,
                   writerVars, kpc, cargs, cloc, readerVars, exch, nextSeq, clock, ghost>>

\* lines 340-341: the history is not empty and its last id is not the one
\* of the snapshot
ExecTailChanged(q, last) == Len(q) > 0 /\ q[Len(q)][1] # last

\* otherwise time.sleep(self._sleep_time) and the next round of the loop
PollExec(c) ==
    /\ cpc[c] = "poll_exec"
    /\ cpc' = [cpc EXCEPT ![c] = IF ExecTailChanged(executed, cloc[c].last)
                                 THEN "poll_ret" ELSE "poll"]
    /\ UNCHANGED <<pubVars, storeVars, symbols, disconnect, queue, tickq, sent, cancels, transportVars,
                   writerVars, kpc, cargs, cloc, cret, readerVars, exch, nextSeq, clock, ghost>>

\* line 342: return self._executed_orders[-1][0]
PollRet(c) ==
    /\ cpc[c] = "poll_ret"
    /\ cpc' = [cpc EXCEPT ![c] = "done"]
    /\ cret' = [cret EXCEPT ![c] = [NoResult EXCEPT !.kind = "return",
                                       !.id = LastExecutedId(executed)]]
    /\ UNCHANGED <<pubVars, storeVars, symbols, disconnect, queue, tickq, sent, cancels, transportVars,
                   writerVars, kpc, cargs, cloc, readerVars, exch, nextSeq, clock, ghost>>

\* the caller goes on to its next call
NextCall(c) ==
    /\ cpc[c] = "done"
    /\ ghost.calls[c] < MaxCalls
    /\ cpc' = [cpc EXCEPT ![c] = "idle"]
    /\ UNCHANGED <<pubVars, storeVars, symbols, disconnect, queue, tickq, sent, cancels, transportVars,
                   writerVars, kpc, cargs, cloc, cret, readerVars, exch, nextSeq, clock, ghost>>

----------------------------------------------------------------------------
(* Trader.wait_execution, Trader.cancel, Trader.cancel_all *)

\* the bound `seconds` is counted in rounds of the loop (each sleeps)
WaitCall(c, id, rounds) ==
    /\ cpc[c] = "idle"
    /\ ghost.calls[c] < MaxCalls
    /\ ghost' = [ghost EXCEPT !.calls[c] = @ + 1, !.cop[c] = "wait_execution"]
    /\ cpc' = [cpc EXCEPT ![c] = "wait"]
    /\ cloc' = [cloc EXCEPT ![c] = [NoLocals EXCEPT !.wid = id, !.left = rounds]]
    /\ cret' = [cret EXCEPT ![c] = NoResult]
    /\ UNCHANGED <<pubVars, storeVars, symbols, disconnect, queue, tickq, sent, cancels, transportVars,
                   writerVars, kpc, cargs, readerVars, exch, nextSeq, clock>>

\* trades[ids.index(_id)]: the first entry of the history with that id
FirstWithId(q, id) == q[CHOOSE i \in 1..Len(q) : q[i][1] = id /\ \A j \in 1..(i - 1) : q[j][1] # id][2]

WaitPoll(c) ==
    /\ cpc[c] = "wait"
    /\ IF cloc[c].left = 0
       THEN /\ Raise(c, "TimeoutError")
            /\ cpc' = [cpc EXCEPT ![c] = "done"]
            /\ cloc' = cloc
       ELSE IF Has(executed, cloc[c].wid)
            THEN /\ cret' = [cret EXCEPT ![c] = [NoResult EXCEPT !.kind = "return",
                                                    !.id = cloc[c].wid,
                                                    !.trade = FirstWithId(executed, cloc[c].wid)]]
                 /\ cpc' = [cpc EXCEPT ![c] = "done"]
                 /\ cloc' = cloc
            ELSE /\ cloc' = [cloc EXCEPT ![c].left = @ - 1]
                 /\ UNCHANGED <<cpc, cret>>
    /\ UNCHANGED <<pubVars, storeVars, symbols, disconnect, queue, tickq, sent, cancels, transportVars,
                   writerVars, kpc, cargs, readerVars, exch, nextSeq, clock, ghost>>

\* self.wss.cancel_order(multi=False, id=_id)
Cancel(c, id) ==
    /\ cpc[c] = "idle"
    /\ ghost.calls[c] < MaxCalls
    /\ ghost' = [ghost EXCEPT !.calls[c] = @ + 1]
    /\ cancels' = Append(cancels, id)
    /\ UNCHANGED <<pubVars, storeVars, symbols, disconnect, queue, tickq, sent, transportVars,
                   writerVars, kpc, callerVars, readerVars, exch, nextSeq, clock>>

\* a slip that also takes the orders whose age equals older_than
OlderThan_OrEqual(os, now, age) == KeySeq(SelectSeq(os, LAMBDA p : now - p[2].timestamp >= age))

\* the ids of a copy of _orders with now - timestamp > older_than, in order
OlderThan(os, now, age) == KeySeq(SelectSeq(os, LAMBDA p : now - p[2].timestamp > age))

CancelAll(c, older_than) ==
    /\ cpc[c] = "idle"
    /\ ghost.calls[c] < MaxCalls
    /\ ghost' = [ghost EXCEPT !.calls[c] = @ + 1]
    /\ cancels' = cancels \o OlderThan(orders, clock, older_than)
    /\ UNCHANGED <<pubVars, storeVars, symbols, disconnect, queue, tickq, sent, transportVars,
                   writerVars, kpc, callerVars, readerVars, exch, nextSeq, clock>>

----------------------------------------------------------------------------
(* A reader thread: the property reads of _Account, statement by statement *)

NoRLocals == [bal |-> << >>, it |-> 0, n |-> 0, dirty |-> FALSE, total |-> 0,
              out |-> << >>, op |-> "", alias |-> FALSE]

NoRResult == [kind |-> "none", num |-> 0, map |-> << >>, err |-> ""]

RReturnMap(m) == rret' = [NoRResult EXCEPT !.kind = "return", !.map = m]
RReturnNum(x) == rret' = [NoRResult EXCEPT !.kind = "return", !.num = x]
RRaise(err)   == rret' = [NoRResult EXCEPT !.kind = "raise", !.err = err]

StartRead(op) == /\ ghost.reads < MaxReads
                 /\ ghost' = [ghost EXCEPT !.rseen = {View(Store)}, !.rop = op,
                                           !.reads = @ + 1]

\* available_balances, line 53: balances = self._wallets.copy()
ABCopy ==
    /\ rpc = "idle"
    /\ rpc' = "ab_copy"
    /\ rloc' = [NoRLocals EXCEPT !.bal = wallets, !.op = "available_balances"]
    /\ rret' = NoRResult
    /\ StartRead("available_balances")
    /\ UNCHANGED <<pubVars, storeVars, symbols, disconnect, queue, tickq, sent, cancels, transportVars,
                   writerVars, kpc, callerVars, exch, nextSeq, clock>>

\* line 54: the iterator of self._orders.values() is made; it holds the
\* next key to deliver (none when the dictionary is empty)
ABIter ==
    /\ rpc = "ab_copy"
    /\ rpc' = "ab_iter"
    /\ rloc' = [rloc EXCEPT !.it = IF Len(orders) > 0 THEN 1 ELSE 0, !.dirty = FALSE]
    /\ UNCHANGED <<pubVars, storeVars, symbols, disconnect, queue, tickq, sent, cancels, transportVars,
                   writerVars, kpc, callerVars, rret, exch, nextSeq, clock, ghost>>

\* lines 54-61: one round of the loop.  With no key left the result is
\* returned; with a key left, a dictionary that was mutated since the
\* iterator was made raises RuntimeError; otherwise the order under the key
\* is read as it is now.
ABNext ==
    /\ rpc = "ab_iter"
    /\ IF rloc.it = 0
       THEN /\ RReturnMap(rloc.bal)
            /\ rpc' = "done"
            /\ rloc' = rloc
       ELSE IF rloc.dirty
            THEN /\ RRaise("RuntimeError")
                 /\ rpc' = "done"
                 /\ rloc' = rloc
            ELSE /\ rloc' = [rloc EXCEPT !.bal = ABStep(rloc.bal, orders[rloc.it][2]),
                                         !.it = IF rloc.it < Len(orders) THEN rloc.it + 1 ELSE 0]
                 /\ UNCHANGED <<rpc, rret>>
    /\ UNCHANGED <<pubVars, storeVars, symbols, disconnect, queue, tickq, sent, cancels, transportVars,
                   writerVars, kpc, callerVars, exch, nextSeq, clock, ghost>>

\* value, lines 97-98: the iterator of self._wallets.items() is made; it
\* remembers the size of the dictionary
ValIter ==
    /\ rpc = "idle"
    /\ rpc' = "val_iter"
    /\ rloc' = [NoRLocals EXCEPT !.n = Len(wallets), !.op = "value"]
    /\ rret' = NoRResult
    /\ StartRead("value")
    /\ UNCHANGED <<pubVars, storeVars, symbols, disconnect, queue, tickq, sent, cancels, transportVars,
                   writerVars, kpc, callerVars, exch, nextSeq, clock>>

\* lines 98-102: one round of the loop.  A dictionary whose size changed
\* raises RuntimeError; the price of a currency is read with
\* self._prices[...], which inserts a missing key.
ValNext ==
    /\ rpc = "val_iter"
    /\ IF Len(wallets) # rloc.n
       THEN /\ RRaise("RuntimeError")
            /\ rpc' = "done"
            /\ UNCHANGED <<rloc, prices>>
       ELSE IF rloc.it >= rloc.n
            THEN /\ RReturnNum(rloc.total)
                 /\ rpc' = "done"
                 /\ UNCHANGED <<rloc, prices>>
            ELSE LET cur == wallets[rloc.it + 1][1]
                     amt == wallets[rloc.it + 1][2]
                 IN  /\ rloc' = [rloc EXCEPT !.total = ValStep(rloc.total, cur, amt, prices),
                                             !.it = rloc.it + 1]
                     /\ prices' = IF cur # "usd" THEN DefaultTouch(prices, PairOf(cur))
                                  ELSE prices
                     /\ UNCHANGED <<rpc, rret>>
    /\ UNCHANGED <<pubVars, orders, executed, wallets, log, symbols, disconnect, queue, tickq, sent,
                   cancels, transportVars, writerVars, kpc, callerVars, exch, nextSeq, clock, ghost>>

\* positions, lines 85-89: the iterator of self._prices is made
PosIter ==
    /\ rpc = "idle"
    /\ rpc' = "pos_iter"
    /\ rloc' = [NoRLocals EXCEPT !.n = Len(prices), !.op = "positions"]
    /\ rret' = NoRResult
    /\ StartRead("positions")
    /\ UNCHANGED <<pubVars, storeVars, symbols, disconnect, queue, tickq, sent, cancels, transportVars,
                   writerVars, kpc, callerVars, exch, nextSeq, clock>>

\* one entry of the comprehension: self._wallets[coin] and self.value read
\* two defaultdicts and insert their missing keys; the value is taken at
\* one instant; a value of 0 raises ZeroDivisionError
PosNext ==
    /\ rpc = "pos_iter"
    /\ IF Len(prices) # rloc.n
       THEN /\ RRaise("RuntimeError")
            /\ rpc' = "done"
            /\ UNCHANGED <<rloc, prices, wallets>>
       ELSE IF rloc.it >= rloc.n
            THEN /\ RReturnMap(rloc.out)
                 /\ rpc' = "done"
                 /\ UNCHANGED <<rloc, prices, wallets>>
            ELSE LET symbol == prices[rloc.it + 1][1]
                     w1     == DefaultTouch(wallets, CoinOf(symbol))
                     p1     == TouchPrices(w1, prices, 1)
                 IN  /\ wallets' = w1
                     /\ prices' = p1
                     /\ IF Value(w1, prices) = 0
                        THEN /\ RRaise("ZeroDivisionError")
                             /\ rpc' = "done"
                             /\ rloc' = rloc
                        ELSE /\ rloc' = [rloc EXCEPT
                                           !.out = Put(@, symbol, PositionOf(w1, prices, symbol)),
                                           !.it = rloc.it + 1]
                             /\ UNCHANGED <<rpc, rret>>
    /\ UNCHANGED <<pubVars, orders, executed, log, symbols, disconnect, queue, tickq, sent,
                   cancels, transportVars, writerVars, kpc, callerVars, exch, nextSeq, clock, ghost>>

\* OrderedDict(self._executed_orders): a fresh dictionary; a repeated id
\* keeps its first place and takes the last order
ToOrderedDict(q, i) ==
    LET firsts  == {j \in 1..i : \A k \in 1..(j - 1) : q[k][1] # q[j][1]}
        nth(n)  == CHOOSE j \in firsts : Cardinality({k \in firsts : k < j}) = n - 1
        last(j) == CHOOSE m \in j..i : q[m][1] = q[j][1] /\ \A k \in (m + 1)..i : q[k][1] # q[j][1]
    IN  [n \in 1..Cardinality(firsts) |-> <<q[nth(n)][1], q[last(nth(n))][2]>>]

\* The accessors orders, wallets and executed_orders.  alias says whether
\* the value handed out is the store's own object (return self._orders,
\* return self._wallets) or a fresh one (OrderedDict(...)); bal keeps the
\* fresh one, out keeps what was handed out, as it was at the return.
AccessorAlias(which) == which \in {"orders", "wallets"}

AccessorValue(which) == CASE which = "orders" -> orders
                          [] which = "wallets" -> wallets
                          [] which = "executed_orders" -> ToOrderedDict(executed, Len(executed))

Access(which) ==
    /\ rpc = "idle"
    /\ rpc' = "held"
    /\ rloc' = [NoRLocals EXCEPT !.op = which, !.alias = AccessorAlias(which),
                                 !.bal = AccessorValue(which), !.out = AccessorValue(which)]
    /\ rret' = NoRResult
    /\ StartRead(which)
    /\ UNCHANGED <<pubVars, storeVars, symbols, disconnect, queue, tickq, sent, cancels, transportVars,
                   writerVars, kpc, callerVars, exch, nextSeq, clock>>

\* what the caller sees in the value it holds
Held == IF rloc.alias
        THEN (IF rloc.op = "orders" THEN orders ELSE wallets)
        ELSE rloc.bal

\* the caller deletes the first entry of the value it holds
MutateHeld ==
    /\ rpc = "held"
    /\ Held # << >>
    /\ IF rloc.alias
       THEN /\ IF rloc.op = "orders"
               THEN orders' = Tail(orders) /\ wallets' = wallets
               ELSE wallets' = Tail(wallets) /\ orders' = orders
            /\ rloc' = rloc
       ELSE /\ rloc' = [rloc EXCEPT !.bal = Tail(@)]
            /\ UNCHANGED <<orders, wallets>>
    /\ rpc' = "mutated"
    /\ UNCHANGED <<pubVars, executed, prices, log, symbols, disconnect, queue, tickq, sent, cancels,
                   transportVars, writerVars, kpc, callerVars, rret, exch, nextSeq, clock, ghost>>

\* the reader drops what it was handed and goes on to its next read
NextRead ==
    /\ rpc \in {"done", "held", "mutated"}
    /\ rpc' = "idle"
    /\ rloc' = NoRLocals
    /\ rret' = NoRResult
    /\ ghost' = [ghost EXCEPT !.rseen = {}, !.rop = ""]
    /\ UNCHANGED <<pubVars, storeVars, symbols, disconnect, queue, tickq, sent, cancels, transportVars,
                   writerVars, kpc, callerVars, exch, nextSeq, clock>>

----------------------------------------------------------------------------
(* The state after Trader(key, secret) *)

(* public.py: the types, symbols and transport queues of a PublicData.  A  *)
(* string type is a 1-tuple and a candle type the pair ("candles", period). *)

MaxPub == 3

PubTypes == {<<"tickers">>, <<"trades">>, <<"candles", "1m">>}
PubSymbols == {"BTCUSD", "ETHUSD"}
PubPairs == PubTypes \X PubSymbols

NoPubResult == [kind |-> "none", v |-> << >>]

Init ==
    /\ orders = << >>
    /\ executed = << >>
    /\ wallets = << >>
    /\ prices = << >>
    /\ log = << >>
    /\ symbols = << >>
    /\ disconnect = FALSE
    /\ queue = [src \in {Sources[i] : i \in 1..Len(Sources)} |-> << >>]
    /\ tickq = [sym \in Symbols |-> << >>]
    /\ sent = << >>
    /\ cancels = << >>
    /\ stopped = FALSE
    /\ dropped = FALSE
    /\ wpc = "off"
    /\ widx = 1
    /\ wops = << >>
    /\ kpc = "idle"
    /\ cpc = [c \in Threads |-> "idle"]
    /\ cargs = [c \in Threads |-> NoArgs]
    /\ cloc = [c \in Threads |-> NoLocals]
    /\ cret = [c \in Threads |-> NoResult]
    /\ rpc = "idle"
    /\ rloc = NoRLocals
    /\ rret = NoRResult
    /\ exch = [i \in Ids |-> [st |-> "none", cmd |-> "on", d |-> NoDatum, out |-> FALSE]]
    /\ nextSeq = 1
    /\ clock = 0
    /\ ghost = [accepted |-> {}, mine |-> [c \in Threads |-> 0], snapshot |-> FALSE,
                appliedMax |-> [i \in Ids |-> 0], closedMax |-> [i \in Ids |-> 0],
                capplied |-> [c \in Threads |-> {}],
                calls |-> [c \in Threads |-> 0], csent |-> [c \in Threads |-> 0],
                cop |-> [c \in Threads |-> ""], rseen |-> {}, rop |-> "", reads |-> 0,
                polls |-> << >>, pput |-> [p \in PubPairs |-> << >>],
                pgot |-> [p \in PubPairs |-> << >>], pcount |-> 0,
                cput |-> 0, cgot |-> << >>]
    /\ gen = [pc |-> "start", symbols |-> {}, todo |-> << >>, out |-> << >>]
    /\ pub = [types |-> {<<"tickers">>, <<"trades">>}, symbols |-> {"BTCUSD"},
              q |-> [p \in PubPairs |-> << >>], pc |-> "idle", args |-> << >>,
              ret |-> NoPubResult]
    /\ coin = [data |-> << >>, seen |-> << >>, rq |-> << >>, pc |-> "idle"]

----------------------------------------------------------------------------
(* Specifications.  Each takes the actions of one part of the program and  *)
(* the events that part is about.                                          *)

\* the wallet snapshot of a funded account: 100.00 usd on the exchange
\* wallet, and an entry of the margin wallet
FundedWallets == <<WalletEntry("exchange", "USD", 10000), WalletEntry("margin", "BTC", 7)>>

\* order('BTCUSD', 10.00, dollar_amount=40.00)
PlainOrder == OrderArgs("BTCUSD", <<1000>>, <<4000>>, << >>, << >>, "limit", << >>, TRUE)

WriterStep == WriterTop \/ WriterPoll \/ WriterApply

OrderStep(c) == SnapIds(c) \/ SnapExec(c) \/ Submit(c) \/ Poll(c) \/ PollExec(c) \/ PollRet(c)

\* The correlation of a submitted order with its confirmation: one caller
\* in order(), the exchange confirming it, and the orders of another
\* session of the account.
NextCorr ==
    \/ Connect(FundedWallets)
    \/ WriterTop
    \/ WriterPoll
    \/ WriterApply
    \/ \E c \in Callers : OrderCall(c, PlainOrder)
    \/ \E c \in Callers : SnapIds(c)
    \/ \E c \in Callers : SnapExec(c)
    \/ \E c \in Callers : Submit(c)
    \/ \E c \in Callers : Poll(c)
    \/ \E c \in Callers : PollExec(c)
    \/ \E c \in Callers : PollRet(c)
    \/ \E j \in 1..MaxCalls : ExchAccept(j)
    \/ \E j \in 1..MaxCalls : ExchAcceptFilled(j)
    \/ ExchForeign(4, 1000)
    \/ \E id \in Ids : ExchExecute(id)

SpecCorr == Init /\ [][NextCorr]_vars

----------------------------------------------------------------------------
(* C1-C2: the id that order(return_id=True) returns *)

OrderReturned(c) ==
    /\ ghost.cop[c] = "order"
    /\ cargs[c].return_id
    /\ cpc[c] = "done"
    /\ cret[c].kind = "return"

\* C1: order(return_id=True) returns the id of the order this call
\* submitted, whatever events of other orders are applied between the
\* snapshot and the confirmation.
C1_ReturnsOwnId ==
    \A c \in Callers : OrderReturned(c) => cret[c].id = ghost.mine[c]

\* the only event applied since the snapshot is the executed close event of
\* the order this call submitted
OnlyOwnFill(c) ==
    /\ ghost.cop[c] = "order"
    /\ cargs[c].return_id
    /\ ghost.mine[c] # 0
    /\ ghost.capplied[c] = {<<"oc_execute", ghost.mine[c]>>}

\* C2: when the only event applied after the snapshot is the executed close
\* event of the submitted order (the id never shows in the open orders),
\* the poll finds the history changed and order() returns that id, also
\* with a history that was not empty before.
C2_ImmediateFill ==
    \A c \in Callers :
        OnlyOwnFill(c) =>
            /\ cpc[c] = "poll_exec" => ExecTailChanged(executed, cloc[c].last)
            /\ cpc[c] = "poll_ret" => LastExecutedId(executed) = ghost.mine[c]
            /\ OrderReturned(c) => cret[c].id = ghost.mine[c]

C2_Witness ==
    \E c \in Callers :
        /\ OnlyOwnFill(c)
        /\ OrderReturned(c)
        /\ cret[c].id = ghost.mine[c]
        /\ cloc[c].last # 0
        /\ Len(executed) >= 2

----------------------------------------------------------------------------
(* The stream of order events and the writer: orders of the account are    *)
(* opened, filled, executed and cancelled on the exchange, events are      *)
(* delivered once more, and some arrive malformed.                         *)

MalformedShapes == {<<"arity", <<"ACTIVE">>>>, <<"nonnum", <<"ACTIVE">>>>, <<"ok", << >>>>}

NextStream ==
    \/ Connect(FundedWallets)
    \/ WriterTop
    \/ WriterPoll
    \/ WriterApply
    \/ ExchForeign(4, 1000)
    \/ ExchSnapshot
    \/ \E id \in Ids : ExchFill(id)
    \/ \E id \in Ids : ExchExecute(id)
    \/ \E id \in Ids : ExchCancel(id)
    \/ \E id \in Ids : Redeliver(id)
    \/ \E id \in Ids, m \in MalformedShapes : DeliverMalformed("ou", id, m[1], m[2])

SpecStream == Init /\ [][NextStream]_vars

\* the writer is about to carry out the close of an id that is not open
ClosesAbsentId ==
    /\ wops # << >>
    /\ Head(wops)[1] \in {"cancel", "execute"}
    /\ ~Has(orders, Head(wops)[2])

\* C3: a close event for an id that is not in the open orders changes
\* neither the open orders nor the executed history nor the audit log, and
\* the writer keeps running.
C3_CloseAbsentNoOp ==
    [][ClosesAbsentId => /\ orders' = orders
                         /\ executed' = executed
                         /\ log' = log
                         /\ wpc' # "dead"]_vars

\* C4: the events of one order id are applied in the order they arrived: a
\* close event of an id is never taken by the writer while a new or update
\* event of that id that arrived earlier is still on its queue.
C4_ArrivalOrder ==
    \A src \in {"Order New", "Order Update"} : \A i \in 1..Len(queue[src]) :
        \A id \in EventIds(queue[src][i]) :
            ghost.closedMax[id] < queue[src][i].seq

\* C6: a malformed event is dropped and the writer goes on: it never ends
\* the receiver thread.
C6_MalformedDropped == wpc # "dead"

----------------------------------------------------------------------------
(* A reader thread next to the writer: the accessors and the derived       *)
(* metrics are read while orders, wallet updates and ticks are applied.    *)

BtcWallet == WalletEntry("exchange", "BTC", 2)
BtcTick   == [bid |-> 1000, bid_size |-> 1, ask |-> 1000, ask_size |-> 1]

Accessors == {"orders", "wallets", "executed_orders"}

NextReader ==
    \/ Connect(FundedWallets)
    \/ WriterTop
    \/ WriterPoll
    \/ WriterApply
    \/ Subscribe("BTCUSD")
    \/ ExchTick("BTCUSD", BtcTick)
    \/ ExchForeign(4, 1000)
    \/ \E id \in Ids : ExchExecute(id)
    \/ ExchWalletUpdate(BtcWallet)
    \/ ABCopy
    \/ ABIter
    \/ ABNext
    \/ ValIter
    \/ ValNext
    \/ PosIter
    \/ PosNext
    \/ \E which \in Accessors : Access(which)
    \/ MutateHeld
    \/ NextRead

SpecRead == Init /\ [][NextReader]_vars

\* C7: what orders, executed_orders and wallets return is a snapshot: while
\* the caller holds it, no step changes what the caller sees in it, and the
\* caller changing it leaves the store as it was.
C7_AccessorSnapshots ==
    [][/\ (rpc = "held" /\ rpc' = "held") => Held' = Held
       /\ (rpc = "held" /\ rpc' = "mutated") =>
              <<orders, executed, wallets, prices>>' = <<orders, executed, wallets, prices>>]_vars

\* positions as a function of one store state
Positions(w, p) == [i \in 1..Len(p) |-> <<p[i][1], PositionOf(w, p, p[i][1])>>]

\* the result in rret is the metric op of the store state s
IsMetricOf(op, s) ==
    CASE op = "available_balances" -> rret.map = AvailableBalances(s.wallets, s.orders)
      [] op = "value" -> rret.num = Value(s.wallets, s.prices)
      [] op = "positions" -> IF s.prices = << >> THEN rret.map = << >>
                             ELSE /\ Value(s.wallets, s.prices) # 0
                                  /\ rret.map = Positions(s.wallets, s.prices)
      [] OTHER -> FALSE

\* C8: a metric read next to the writer completes, and what it returns is
\* the metric of one store state that existed during the call.
C8_MetricOfOneState ==
    rpc = "done" => /\ rret.kind = "return"
                    /\ \E s \in ghost.rseen : IsMetricOf(ghost.rop, s)

\* C9: only the writer changes the store: a step that is neither the
\* writer applying an operation nor the caller changing a value it was
\* handed leaves open orders, history, wallets and prices as they were.
C9_CallersOnlyRead ==
    [][(wops' = wops /\ ~(rpc = "held" /\ rpc' = "mutated")) =>
          <<orders, executed, wallets, prices>>' = <<orders, executed, wallets, prices>>]_vars

----------------------------------------------------------------------------
(* Shutdown: a caller is in order(return_id=True) or in wait_execution     *)
(* when close() is called.  Every thread that can take a step takes it     *)
(* eventually; nothing is assumed of the exchange.                         *)

CloseStep == CloseStop \/ CloseJoin

NextShutdown ==
    \/ Connect(FundedWallets)
    \/ WriterTop
    \/ WriterPoll
    \/ WriterApply
    \/ \E c \in Callers : OrderCall(c, PlainOrder)
    \/ \E c \in Callers : SnapIds(c)
    \/ \E c \in Callers : SnapExec(c)
    \/ \E c \in Callers : Submit(c)
    \/ \E c \in Callers : Poll(c)
    \/ \E c \in Callers : PollExec(c)
    \/ \E c \in Callers : PollRet(c)
    \/ \E c \in Callers, id \in Ids : WaitCall(c, id, MaxWait)
    \/ \E c \in Callers : WaitPoll(c)
    \/ \E c \in Callers : NextCall(c)
    \/ \E j \in 1..MaxCalls : ExchAccept(j)
    \/ \E id \in Ids : ExchExecute(id)
    \/ CloseSet
    \/ CloseStop
    \/ CloseJoin

SpecShutdown ==
    /\ Init
    /\ [][NextShutdown]_vars
    /\ WF_vars(WriterStep)
    /\ WF_vars(CloseStep)
    /\ \A c \in Callers : WF_vars(OrderStep(c) \/ WaitPoll(c))

Blocked(c) == cpc[c] \in {"poll", "poll_exec", "wait"}

\* C5: once close() has set the shutdown signal, a caller that is in the
\* correlation loop of order or in wait_execution eventually leaves the
\* call, by a return or by an exception.
C5_ShutdownReleases ==
    \A c \in Callers : (disconnect /\ Blocked(c)) ~> (cpc[c] = "done")

----------------------------------------------------------------------------
(* The arguments of order: calls with every combination of the sizing      *)
(* arguments and several trade types, on a funded account.                 *)

SizingChoices == [dollar_amount : {<< >>, <<0>>, <<4000>>},
                  ratio         : {<< >>, <<50>>},
                  value_ratio   : {<< >>, <<50>>},
                  trade_type    : {"limit", "MARKET", "stop"}]

ArgsOf(ch) == OrderArgs("BTCUSD", <<1000>>, ch.dollar_amount, ch.ratio, ch.value_ratio,
                        ch.trade_type, << >>, FALSE)

NextArgs ==
    \/ Connect(FundedWallets)
    \/ WriterTop
    \/ WriterPoll
    \/ WriterApply
    \/ \E c \in Callers, ch \in SizingChoices : OrderCall(c, ArgsOf(ch))
    \/ \E c \in Callers : SnapIds(c)
    \/ \E c \in Callers : SnapExec(c)
    \/ \E c \in Callers : Submit(c)
    \/ \E c \in Callers : NextCall(c)

SpecArgs == Init /\ [][NextArgs]_vars

\* a sizing argument is given when it is not None
Given(x) == x # << >>

GivenCount(a) == Cardinality({m \in {"d", "r", "v"} :
                                Given(CASE m = "d" -> a.dollar_amount
                                        [] m = "r" -> a.ratio
                                        [] m = "v" -> a.value_ratio)})

\* c is in a call of order, or has just left it
InOrder(c) == ghost.cop[c] = "order" /\ cpc[c] # "idle"

\* C10: order called with none or with more than one of dollar_amount,
\* ratio and value_ratio, or with a trade_type outside {market, limit}
\* (in any case of letters), raises AssertionError and makes no new_order
\* call.
C10_BadArgsRaise ==
    \A c \in Callers :
        (InOrder(c) /\ (GivenCount(cargs[c]) # 1
                           \/ Lower(cargs[c].trade_type) \notin TradeTypes))
            => /\ cpc[c] = "done"
               /\ cret[c].kind = "raise"
               /\ cret[c].err = "AssertionError"
               /\ ghost.csent[c] = 0

----------------------------------------------------------------------------
(* The sizing of order: calls with one sizing argument each, buys and      *)
(* sells, below the minimum, within and above what is available, next to   *)
(* an open order of the account.                                           *)

SizingWallets == <<WalletEntry("exchange", "USD", 10000), WalletEntry("exchange", "BTC", 7)>>

SizedOrders ==
    {OrderArgs("BTCUSD", <<pr>>, <<d>>, << >>, << >>, "limit", << >>, FALSE) :
        pr \in {1000, 600}, d \in {4000, 3000, 20000, -4000, -8000}}
    \cup {OrderArgs("BTCUSD", <<pr>>, << >>, <<r>>, << >>, "limit", << >>, FALSE) :
        pr \in {1000, 600}, r \in {100, 50, -100}}
    \cup {OrderArgs("BTCUSD", <<pr>>, << >>, << >>, <<v>>, "limit", << >>, FALSE) :
        pr \in {1000, 600}, v \in {50, -50}}

NextSizing ==
    \/ Connect(SizingWallets)
    \/ WriterTop
    \/ WriterPoll
    \/ WriterApply
    \/ ExchForeign(4, 1000)
    \/ \E c \in Callers, a \in SizedOrders : OrderCall(c, a)
    \/ \E c \in Callers : SnapIds(c)
    \/ \E c \in Callers : SnapExec(c)
    \/ \E c \in Callers : Submit(c)
    \/ \E c \in Callers : NextCall(c)

SpecSizing == Init /\ [][NextSizing]_vars

\* the order (amount, price) is within the two bounds for the available
\* balances avail: at least the minimum notional, and no more than the
\* available usd for a buy, than the available coin for a sell
WithinBounds(amount, price, symbol, avail) ==
    /\ Abs(amount) * price >= MinOrderValue
    /\ IF amount > 0
       THEN amount * price <= DefaultGet(avail, "usd")
       ELSE -amount <= DefaultGet(avail, CoinOf(symbol))

\* C11: an order whose resolved amount is below the minimum notional or
\* above what available_balances shows at the call raises and goes no
\* further: every call that passes its checks, and so reaches new_order,
\* has an amount within both bounds.
C11_SizedWithinBounds ==
    [][\A c \in Callers :
          (cpc[c] = "idle" /\ cpc'[c] = "snap_ids") =>
              WithinBounds(cloc'[c].amount, cloc'[c].price, cloc'[c].symbol,
                           AvailableBalances(wallets, orders))]_vars

----------------------------------------------------------------------------
(* The account on its own: _Account._update is called with one event after *)
(* the other on an initially empty store, with no receiver thread, the way *)
(* the tests drive it.                                                     *)

RECURSIVE ApplyOps(_, _)
ApplyOps(ops, S) == IF ops = << >> THEN S ELSE ApplyOps(Tail(ops), ApplyOp(Head(ops), S))

\* account._update(cmd, data), as one step; an exception of the handler
\* goes to the caller and leaves the store as it was
AccountApply(cmd, data) ==
    /\ wpc = "off"
    /\ nextSeq' = nextSeq + 1
    /\ LET r == Update(cmd, data)
           S == IF r.raised THEN Store ELSE ApplyOps(r.ops, Store)
       IN  /\ orders' = S.orders
           /\ executed' = S.executed
           /\ wallets' = S.wallets
           /\ prices' = S.prices
           /\ log' = S.log
    /\ UNCHANGED <<pubVars, symbols, disconnect, queue, tickq, sent, cancels, transportVars, writerVars,
                   kpc, callerVars, readerVars, exch, clock, ghost>>

\* one of the MaxEvents events of a run
AccountUpdate(cmd, data) == nextSeq <= MaxEvents /\ AccountApply(cmd, data)

NewData    == {Datum(id, k[1], 0, k[2], k[2], <<"ACTIVE">>, 1000, 0, "ok") :
                 id \in Ids, k \in {<<"tBTCUSD", 4>>, <<"tBTCUSD", -4>>, <<"tETHUSD", -4>>}}
UpdateData == {Datum(id, "tBTCUSD", 0, amt \div 2, amt, <<"PARTIALLY", "FILLED">>, 1000, 1000, "ok") :
                 id \in Ids, amt \in {4, -4}}
CloseData  == {Datum(id, "tBTCUSD", 0, 0, 4, <<"EXECUTED", "@">>, 1000, 1000, "ok") : id \in Ids}
              \cup {Datum(id, "tBTCUSD", 0, 4, 4, <<"CANCELED">>, 1000, 0, "ok") : id \in Ids}
InitData   == <<Datum(2, "tBTCUSD", 1000, 4, 4, <<"ACTIVE">>, 1000, 0, "ok"),
                Datum(1, "tBTCUSD", 0, -2, -4, <<"PARTIALLY", "FILLED">>, 1000, 1000, "ok")>>
DeltaData  == {WalletEntry("exchange", "USD", 6000), WalletEntry("exchange", "BTC", 7)}

NextAccount ==
    \/ \E d \in NewData : AccountUpdate("on", d)
    \/ \E d \in UpdateData : AccountUpdate("ou", d)
    \/ \E d \in CloseData : AccountUpdate("oc", d)
    \/ AccountUpdate("os", InitData)
    \/ AccountUpdate("ws", FundedWallets)
    \/ \E w \in DeltaData : AccountUpdate("wu", w)

SpecAccount == Init /\ [][NextAccount]_vars

----------------------------------------------------------------------------
(* The executed history at its capacity: one execution after the other,    *)
(* each of a new order id (the ids 1, 2, 3, ... in the order they execute) *)

ExecutedDatum(id) == Datum(id, "tBTCUSD", 0, 0, 4, <<"EXECUTED", "@">>, 1000, 1000, "ok")

HistoryExecute ==
    /\ nextSeq <= MaxExecutions
    /\ AccountApply("oc", ExecutedDatum(nextSeq))

SpecHistory == Init /\ [][HistoryExecute]_vars

\* C13: the executed history never holds more than 100 entries, and after
\* n distinct executions it holds the latest min(n, 100) of them, earliest
\* first, in the deque and in what executed_orders returns.
C13_HistoryBounded ==
    LET n == nextSeq - 1
        k == Min2(n, MaxOrderHistory)
    IN  /\ Len(executed) <= MaxOrderHistory
        /\ KeySeq(executed) = [i \in 1..k |-> n - k + i]
        /\ KeySeq(AccessorValue("executed_orders")) = [i \in 1..k |-> n - k + i]

\* 101 executions have been applied: the first one is gone
C13_Witness ==
    /\ nextSeq - 1 = MaxOrderHistory + 1
    /\ Len(executed) = MaxOrderHistory
    /\ executed[1][1] = 2
    /\ executed[MaxOrderHistory][1] = MaxOrderHistory + 1

\* the order a close datum d stands for, field by field
ClosedOrder(d) ==
    [symbol |-> "BTCUSD", price |-> d.price, executed_price |-> d.exec_price,
     amount |-> d.amount, executed |-> d.amount - d.remaining, remaining |-> d.remaining,
     status |-> d.status[1], timestamp |-> 0]

\* C14: a close event of an open id takes the id out of the open orders
\* and leaves the other open orders; with a status that begins with CANCEL
\* the executed history stays as it is, otherwise the history gets exactly
\* one new entry, at its tail: the id with the order of the close event.
C14_CloseOfOpenId ==
    [][\A d \in CloseData :
          (AccountUpdate("oc", d) /\ Has(orders, d.id)) =>
              /\ orders' = Del(orders, d.id)
              /\ IF d.status[1] = "CANCELED"
                 THEN executed' = executed
                 ELSE /\ Len(executed') = Len(executed) + 1
                      /\ SubSeq(executed', 1, Len(executed)) = executed
                      /\ executed'[Len(executed')] = <<d.id, ClosedOrder(d)>>]_vars

\* an order was opened and then executed, after an earlier execution
C14_Witness ==
    \E i \in 1..(Len(log) - 1) :
        /\ log[i][1] = "SUBMIT"
        /\ log[i + 1] = <<"EXECUTE", log[i][2]>>
        /\ ~Has(orders, log[i][2])
        /\ Len(executed) = 2
        /\ executed[2][1] = log[i][2]

----------------------------------------------------------------------------
(* wait_execution next to the writer: orders of the account execute while  *)
(* a caller waits for one of them, with a bound of no round (seconds = 0)  *)
(* or of MaxWait rounds.                                                   *)

NextWait ==
    \/ Connect(FundedWallets)
    \/ WriterTop
    \/ WriterPoll
    \/ WriterApply
    \/ ExchForeign(4, 1000)
    \/ \E id \in Ids : ExchExecute(id)
    \/ \E c \in Callers, id \in Ids, rounds \in {0, MaxWait} : WaitCall(c, id, rounds)
    \/ \E c \in Callers : WaitPoll(c)
    \/ \E c \in Callers : NextCall(c)

SpecWait == Init /\ [][NextWait]_vars

\* C15: wait_execution ends with the history entry of its id when the id
\* is in the history by the time the call ends, and with TimeoutError when
\* it is not; it never returns the order of another id.
C15_WaitReturnsEntry ==
    [][\A c \in Callers :
          (cpc[c] = "wait" /\ cpc'[c] = "done") =>
              IF Has(executed, cloc[c].wid)
              THEN /\ cret'[c].kind = "return"
                   /\ \E i \in 1..Len(executed) :
                        /\ executed[i][1] = cloc[c].wid
                        /\ cret'[c].trade = executed[i][2]
              ELSE /\ cret'[c].kind = "raise"
                   /\ cret'[c].err = "TimeoutError"]_vars

\* C16: close() joins the writer before it stops the transport: once the
\* transport has been stopped, the writer takes no event from a queue and
\* applies none to the store.
C16_QuietAfterStop ==
    [][stopped => /\ queue' = queue
                  /\ tickq' = tickq
                  /\ <<orders, executed, wallets, prices, log>>'
                       = <<orders, executed, wallets, prices, log>>]_vars

----------------------------------------------------------------------------
(* A dropped connection: a caller is in order(return_id=True) or in        *)
(* wait_execution when the connection of the transport drops.  Every       *)
(* thread that can take a step takes it eventually.                        *)

NextDrop ==
    \/ Connect(FundedWallets)
    \/ WriterTop
    \/ WriterPoll
    \/ WriterApply
    \/ \E c \in Callers : OrderCall(c, PlainOrder)
    \/ \E c \in Callers : SnapIds(c)
    \/ \E c \in Callers : SnapExec(c)
    \/ \E c \in Callers : Submit(c)
    \/ \E c \in Callers : Poll(c)
    \/ \E c \in Callers : PollExec(c)
    \/ \E c \in Callers : PollRet(c)
    \/ \E c \in Callers, id \in Ids : WaitCall(c, id, MaxWait)
    \/ \E c \in Callers : WaitPoll(c)
    \/ \E c \in Callers : NextCall(c)
    \/ \E j \in 1..MaxCalls : ExchAccept(j)
    \/ \E id \in Ids : ExchExecute(id)
    \/ TransportDrop

SpecDrop ==
    /\ Init
    /\ [][NextDrop]_vars
    /\ WF_vars(WriterStep)
    /\ \A c \in Callers : WF_vars(OrderStep(c) \/ WaitPoll(c))

\* C17: once the connection of the transport has dropped, the writer loop
\* ends, and a caller that is in the correlation loop of order or in
\* wait_execution eventually leaves the call.
C17_DropReleases ==
    /\ dropped ~> (wpc \in {"done", "dead"})
    /\ \A c \in Callers : (dropped /\ Blocked(c)) ~> (cpc[c] = "done")

----------------------------------------------------------------------------
(* Wallet events on the account *)

\* the currencies of the entries of a snapshot that are tagged 'exchange'
ExchangeCurrencies(ws) ==
    {Lower(ws[i].currency) : i \in {j \in 1..Len(ws) : Lower(ws[j].wtype) = "exchange"}}

\* the balance of currency c is the same before and after the step
BalanceKept(c) ==
    /\ Has(wallets', c) <=> Has(wallets, c)
    /\ Has(wallets, c) => Get(wallets', c) = Get(wallets, c)

\* C18: a wallet snapshot sets the balance of exactly its entries tagged
\* 'exchange'; a wallet delta sets the balance of its currency to the given
\* balance; the balance of every other currency is kept, and no currency
\* ever leaves the wallets.
C18_WalletEvents ==
    [][/\ AccountUpdate("ws", FundedWallets) =>
            /\ \A i \in 1..Len(FundedWallets) :
                   Lower(FundedWallets[i].wtype) = "exchange" =>
                       /\ Has(wallets', Lower(FundedWallets[i].currency))
                       /\ Get(wallets', Lower(FundedWallets[i].currency)) = FundedWallets[i].balance
            /\ \A c \in Currencies \ ExchangeCurrencies(FundedWallets) : BalanceKept(c)
       /\ \A w \in DeltaData : AccountUpdate("wu", w) =>
            /\ Has(wallets', Lower(w.currency))
            /\ Get(wallets', Lower(w.currency)) = w.balance
            /\ \A c \in Currencies \ {Lower(w.currency)} : BalanceKept(c)
       /\ KeySet(wallets) \subseteq KeySet(wallets')
       /\ KeySet(wallets') \subseteq Currencies]_vars

\* the snapshot has set usd and left btc out, then a delta has set btc
C18_Witness == wallets = <<<<"usd", 10000>>, <<"btc", 7>>>>

----------------------------------------------------------------------------
(* Available balances on the account *)

\* the sum of |remaining| over the open sell orders os[i..] of coin c
RECURSIVE SellSum(_, _, _)
SellSum(os, c, i) ==
    IF i > Len(os) THEN 0
    ELSE (IF os[i][2].remaining < 0 /\ CoinOf(os[i][2].symbol) = c
          THEN 0 - os[i][2].remaining ELSE 0) + SellSum(os, c, i + 1)

\* the sum of remaining x price over the open buy orders os[i..]
RECURSIVE BuySum(_, _)
BuySum(os, i) ==
    IF i > Len(os) THEN 0
    ELSE (IF os[i][2].remaining > 0 THEN os[i][2].remaining * os[i][2].price ELSE 0)
         + BuySum(os, i + 1)

\* C19: in every store state the available balance of a coin is its wallet
\* balance less the |remaining| of the open sell orders of its symbol, and
\* the available usd is the usd balance less remaining x price of the open
\* buy orders.
C19_AvailableBalances ==
    \A c \in Currencies :
        DefaultGet(AvailableBalances(wallets, orders), c) =
            DefaultGet(wallets, c) - (IF c = "usd" THEN BuySum(orders, 1)
                                      ELSE SellSum(orders, c, 1))

\* a funded account with an open buy and an open sell of BTCUSD
C19_Witness ==
    /\ \E i \in 1..Len(orders) : orders[i][2].remaining > 0
    /\ \E i \in 1..Len(orders) : orders[i][2].remaining < 0
    /\ DefaultGet(wallets, "usd") = 10000
    /\ DefaultGet(wallets, "btc") = 7
    /\ DefaultGet(AvailableBalances(wallets, orders), "usd") = 6000
    /\ DefaultGet(AvailableBalances(wallets, orders), "btc") = 5

----------------------------------------------------------------------------
(* A fill: the account is funded with 100.00 usd by the snapshot that      *)
(* answers the authentication, buys of 4 BTCUSD at 10.00 are opened and    *)
(* executed, and the wallet deltas of the fill arrive, in any order.       *)

FillNew   == {d \in NewData : d.symbol = "tBTCUSD" /\ d.amount > 0}
FillClose == {d \in CloseData : d.status[1] = "EXECUTED"}

\* the snapshot is the first event of the run and only the first
AccountFill(cmd, data) ==
    /\ nextSeq <= MaxEvents + 1
    /\ (cmd = "ws") <=> (nextSeq = 1)
    /\ AccountApply(cmd, data)

NextFill ==
    \/ AccountFill("ws", FundedWallets)
    \/ \E d \in FillNew : AccountFill("on", d)
    \/ \E d \in FillClose : AccountFill("oc", d)
    \/ \E w \in DeltaData : AccountFill("wu", w)

SpecFill == Init /\ [][NextFill]_vars

AvailableUsd == DefaultGet(AvailableBalances(wallets, orders), "usd")

\* the value remaining x price of the open order id, 0 when it is not open
Notional(id) == IF Has(orders, id) /\ Get(orders, id).remaining > 0
                THEN Get(orders, id).remaining * Get(orders, id).price ELSE 0

\* with one open buy the available usd is the usd balance less its value
OneBuyReserved ==
    Len(orders) = 1 => AvailableUsd = DefaultGet(wallets, "usd") - Notional(orders[1][1])

\* a wallet delta of usd leaves its balance in wallets['usd']
DeltaShowsDebit ==
    \A w \in DeltaData :
        (AccountFill("wu", w) /\ Lower(w.currency) = "usd") =>
            DefaultGet(wallets', "usd") = w.balance

\* C20 as stated: with an open buy of value N the available usd is the usd
\* balance less N; the executed close of that buy, applied before any
\* wallet delta of usd, leaves the available usd as it was; a wallet delta
\* of usd shows in wallets['usd'].
C20_CloseKeepsAvailable ==
    [][/\ OneBuyReserved
       /\ \A d \in FillClose :
            (AccountFill("oc", d) /\ Has(orders, d.id) /\ DefaultGet(wallets, "usd") = 10000)
                => AvailableUsd' = AvailableUsd
       /\ DeltaShowsDebit]_vars

\* C20 amended: with an open buy of value N the available usd is the usd
\* balance less N; the executed close of that buy gives N back to the
\* available usd, whether or not a wallet delta was applied before it; a
\* wallet delta of usd shows in wallets['usd'] and takes the available usd
\* to that balance less the value of the open buys.
C20_CloseReleasesReserve ==
    [][/\ OneBuyReserved
       /\ \A d \in FillClose :
            (AccountFill("oc", d) /\ Has(orders, d.id))
                => AvailableUsd' = AvailableUsd + Notional(d.id)
       /\ DeltaShowsDebit
       /\ \A w \in DeltaData :
            (AccountFill("wu", w) /\ Lower(w.currency) = "usd") =>
                AvailableUsd' = w.balance - BuySum(orders, 1)]_vars

\* the snapshot, a buy of 40.00, the delta that debits it and the executed
\* close have been applied: the available usd is 60.00, as it was while
\* the buy was open
C20_Witness ==
    /\ orders = << >>
    /\ Len(executed) = 1
    /\ log = <<LogEntry("SUBMIT", executed[1][1]), LogEntry("EXECUTE", executed[1][1])>>
    /\ DefaultGet(wallets, "usd") = 6000
    /\ AvailableUsd = 6000

----------------------------------------------------------------------------
(* The order of the open orders *)

\* C21: the open orders iterate in ascending timestamp order.
C21_OrdersByTimestamp ==
    \A i, j \in 1..Len(orders) :
        i < j => orders[i][2].timestamp <= orders[j][2].timestamp

----------------------------------------------------------------------------
(* The audit entries of submission *)

SubmitCount(id) == Cardinality({i \in 1..Len(log) : log[i] = LogEntry("SUBMIT", id)})

\* C22: a 'submitted' audit entry is written exactly once per order id, at
\* the event that first brings the id into the store: no id has two
\* entries, and every open order has one.
C22_SubmittedOnce ==
    \A id \in Ids :
        /\ SubmitCount(id) <= 1
        /\ Has(orders, id) => SubmitCount(id) = 1

----------------------------------------------------------------------------
(* Cancelling: orders are opened at the time of the clock, with the ids in *)
(* order, and open orders are closed by the 'oc' events of the stream; the *)
(* clock advances, and a caller calls cancel and cancel_all.               *)

OpenedNow == {Datum(id, "tBTCUSD", clock * 1000, 4, 4, <<"ACTIVE">>, 1000, 0, "ok") :
                id \in {i \in Ids : \A j \in Ids :
                                       (\E k \in 1..Len(log) : log[k][2] = j) <=> j < i}}
Cancelled == {d \in CloseData : StartsWithCancel(d.status[1]) /\ Has(orders, d.id)}
Ages      == 0..MaxClock

NextCancel ==
    \/ \E d \in OpenedNow : AccountUpdate("on", d)
    \/ \E d \in Cancelled : AccountUpdate("oc", d)
    \/ Tick
    \/ \E c \in Callers, id \in KeySet(orders) : Cancel(c, id)
    \/ \E c \in Callers, age \in Ages : CancelAll(c, age)

SpecCancel == Init /\ [][NextCancel]_vars

\* how many times id is among the cancel instructions q[from..]
CancelCount(q, from, id) == Cardinality({i \in from..Len(q) : q[i] = id})

\* C23: cancel_all(older_than=d) issues one cancel instruction for each
\* open order with now - timestamp > d and none for another order; cancel
\* and cancel_all leave the open orders as they are, and an id leaves the
\* open orders only in the step that applies a close event of that id.
C23_CancelAllByAge ==
    [][/\ \A c \in Callers, age \in Ages :
            CancelAll(c, age) =>
                /\ SubSeq(cancels', 1, Len(cancels)) = cancels
                /\ \A id \in Ids :
                      CancelCount(cancels', Len(cancels) + 1, id) =
                          (IF Has(orders, id) /\ clock - Get(orders, id).timestamp > age
                           THEN 1 ELSE 0)
                /\ orders' = orders
       /\ \A c \in Callers, id \in Ids : Cancel(c, id) => orders' = orders
       /\ \A id \in KeySet(orders) \ KeySet(orders') :
            \E d \in Cancelled : d.id = id /\ AccountUpdate("oc", d)]_vars

\* one call of cancel_all has issued two cancel instructions and has left
\* out the third open order, and all three are still open
C23_Witness ==
    /\ ghost.calls["c1"] = 1
    /\ Len(cancels) = 2
    /\ Len(orders) = 3
    /\ \A i \in 1..Len(cancels) : Has(orders, cancels[i])

----------------------------------------------------------------------------
(* Market orders: the account holds 100.00 usd and 7 BTC, BTCUSD ticks at  *)
(* 10.00, and a caller orders 40.00 usd of BTCUSD at the sentinel 'market' *)
(* or at 6.00 with each trade type the validation accepts.                 *)

MarketOrders ==
    {OrderArgs("BTCUSD", pr, <<4000>>, << >>, << >>, tt, << >>, FALSE) :
        pr \in {<< >>, <<600>>}, tt \in {"limit", "market", "MARKET"}}

NextMarket ==
    \/ Connect(SizingWallets)
    \/ Subscribe("BTCUSD")
    \/ ExchTick("BTCUSD", BtcTick)
    \/ WriterTop
    \/ WriterPoll
    \/ WriterApply
    \/ \E c \in Callers, a \in MarketOrders : OrderCall(c, a)
    \/ \E c \in Callers : SnapIds(c)
    \/ \E c \in Callers : SnapExec(c)
    \/ \E c \in Callers : Submit(c)
    \/ \E c \in Callers : NextCall(c)

SpecMarket == Init /\ [][NextMarket]_vars

\* C24: a call of order that goes on to submit an order of type market has
\* taken as its price the last tick price of the symbol at the time of the
\* call, and the transport call carries that price and that type.
C24_MarketAtTickPrice ==
    [][/\ \A c \in Callers, a \in MarketOrders :
            (OrderCall(c, a) /\ cpc'[c] = "snap_ids"
                             /\ TypeString(cloc'[c].ttype) = "EXCHANGE MARKET")
                => cloc'[c].price = DefaultGet(prices, NormSymbol(a.symbol))
       /\ \A c \in Callers :
            Submit(c) => /\ sent'[Len(sent')].price = cloc[c].price
                         /\ sent'[Len(sent')].type = TypeString(cloc[c].ttype)]_vars

----------------------------------------------------------------------------
(* Price padding: the account holds 100.00 usd and 7 BTC, and a caller     *)
(* orders 40.00 usd of BTCUSD, to buy or to sell, at 10.00 or at 0.01,     *)
(* with a pad_price of 10%, of 0, of -10%, or none.                        *)

PaddedOrders ==
    {OrderArgs("BTCUSD", <<pr>>, <<d>>, << >>, << >>, "limit", pad, FALSE) :
        pr \in {1000, 1}, d \in {4000, -4000}, pad \in {<<10>>, <<0>>, <<-10>>, << >>}}

NextPad ==
    \/ Connect(SizingWallets)
    \/ WriterTop
    \/ WriterPoll
    \/ WriterApply
    \/ \E c \in Callers, a \in PaddedOrders : OrderCall(c, a)
    \/ \E c \in Callers : SnapIds(c)
    \/ \E c \in Callers : SnapExec(c)
    \/ \E c \in Callers : Submit(c)
    \/ \E c \in Callers : NextCall(c)

SpecPad == Init /\ [][NextPad]_vars

\* price + max(price x p, 0.01) for a buy, price - max(price x p, 0.01) for
\* a sell
PaddedPrice(a) ==
    IF a.dollar_amount[1] > 0
    THEN a.price[1] + Max2((a.price[1] * a.pad_price[1]) \div 100, 1)
    ELSE a.price[1] - Max2((a.price[1] * a.pad_price[1]) \div 100, 1)

\* the call order(a) of this step uses the price pr: it is rejected with
\* no transport call when pr is below 0.01, and a call that goes on holds
\* pr as its price
UsesPrice(c, a, pr) ==
    /\ pr < 1 => (cpc'[c] = "done" /\ cret'[c].kind = "raise" /\ sent' = sent)
    /\ cpc'[c] = "snap_ids" => cloc'[c].price = pr

SubmitSendsPrice ==
    \A c \in Callers : Submit(c) => sent'[Len(sent')].price = cloc[c].price

\* C25 as stated: whenever a pad_price is given (is not None), the price
\* used is the given price padded by at least 0.01 away from the market.
C25_PaddedWheneverGiven ==
    [][/\ \A c \in Callers, a \in PaddedOrders :
            (OrderCall(c, a) /\ a.pad_price # << >>) => UsesPrice(c, a, PaddedPrice(a))
       /\ SubmitSendsPrice]_vars

\* C25 amended: a pad_price that is given and is not zero pads the price
\* by at least 0.01; a pad_price of zero, like none, leaves the price as
\* given.
C25_PaddedWhenNonzero ==
    [][/\ \A c \in Callers, a \in PaddedOrders :
            OrderCall(c, a) =>
                IF a.pad_price # << >> /\ a.pad_price[1] # 0
                THEN UsesPrice(c, a, PaddedPrice(a))
                ELSE UsesPrice(c, a, a.price[1])
       /\ SubmitSendsPrice]_vars

\* a buy padded from 10.00 to 11.00 and a sell padded from 10.00 to 9.00
\* have gone to the transport
C25_Witness ==
    /\ \E i \in 1..Len(sent) : sent[i].price = 1100 /\ sent[i].amount > 0
    /\ \E i \in 1..Len(sent) : sent[i].price = 900 /\ sent[i].amount < 0

----------------------------------------------------------------------------
(* The amount of an order: the account holds 100.00 usd and 7 BTC, a       *)
(* caller orders BTCUSD in each sizing mode, the exchange accepts the      *)
(* orders and their new events are applied.                                *)

AmountOrders ==
    {OrderArgs("BTCUSD", <<pr>>, <<d>>, << >>, << >>, "limit", << >>, FALSE) :
        pr \in {1000, 600}, d \in {4000, -4000}}
    \cup {OrderArgs("BTCUSD", <<1000>>, << >>, <<r>>, << >>, "limit", << >>, FALSE) :
        r \in {50, -100}}
    \cup {OrderArgs("BTCUSD", <<1000>>, << >>, << >>, <<v>>, "limit", << >>, FALSE) :
        v \in {50, 200, -200}}

NextAmount ==
    \/ Connect(SizingWallets)
    \/ WriterTop
    \/ WriterPoll
    \/ WriterApply
    \/ \E c \in Callers, a \in AmountOrders : OrderCall(c, a)
    \/ \E c \in Callers : SnapIds(c)
    \/ \E c \in Callers : SnapExec(c)
    \/ \E c \in Callers : Submit(c)
    \/ \E c \in Callers : NextCall(c)
    \/ \E j \in 1..MaxCalls : ExchAccept(j)

SpecAmount == Init /\ [][NextAmount]_vars

\* x is num / den (den > 0) rounded to the grid of amounts
IsRounded(x, num, den) == 2 * Abs(x * den - num) <= den

\* amount is what the sizing mode of a gives at the price pr, with the
\* available balances avail and the account value val; a ratio is a
\* percentage
AmountResolved(a, amount, pr, avail, val) ==
    LET buy  == (IF a.dollar_amount # << >> THEN a.dollar_amount[1]
                 ELSE IF a.ratio # << >> THEN a.ratio[1] ELSE a.value_ratio[1]) > 0
        \* max_amount = mNum / mDen
        mNum == IF buy THEN DefaultGet(avail, "usd") ELSE DefaultGet(avail, "btc")
        mDen == IF buy THEN pr ELSE 1
    IN  IF a.dollar_amount # << >> THEN IsRounded(amount, a.dollar_amount[1], pr)
        ELSE IF a.ratio # << >> THEN IsRounded(amount, a.ratio[1] * mNum, 100 * mDen)
        ELSE LET vNum == val * a.value_ratio[1]
                 vDen == 100 * pr
             IN  IF vNum * mDen > mNum * vDen THEN IsRounded(amount, mNum, mDen)
                 ELSE IF vNum * mDen < -mNum * vDen THEN IsRounded(amount, -mNum, mDen)
                 ELSE IsRounded(amount, vNum, vDen)

\* C26: the amount of a call that goes on to the transport is the one its
\* sizing mode gives (rounded to the grid of amounts), the transport call
\* carries it, and when the new event of a buy is applied the available
\* usd goes down by amount x price, which for dollar_amount D is D up to
\* the rounding of the amount.
C26_AmountBySizingMode ==
    [][/\ \A c \in Callers, a \in AmountOrders :
            (OrderCall(c, a) /\ cpc'[c] = "snap_ids") =>
                AmountResolved(a, cloc'[c].amount, a.price[1],
                               AvailableBalances(wallets, orders), Value(wallets, prices))
       /\ \A c \in Callers :
            Submit(c) => /\ sent'[Len(sent')].amount = cloc[c].amount
                         /\ sent'[Len(sent')].price = cloc[c].price
       /\ Len(orders') = Len(orders) + 1 =>
            LET o == orders'[Len(orders')][2]
            IN  /\ \E j \in 1..Len(sent) : sent[j].amount = o.amount /\ sent[j].price = o.price
                /\ o.amount > 0 => AvailableUsd' = AvailableUsd - o.amount * o.price]_vars

\* a buy of dollar_amount 40.00 at 10.00 is open with amount 4, and the
\* available usd is 100.00 - 40.00
C26_Witness ==
    /\ Len(sent) >= 1
    /\ sent[1].amount = 4 /\ sent[1].price = 1000
    /\ Len(orders) = 1
    /\ orders[1][2].amount = 4
    /\ DefaultGet(wallets, "usd") = 10000
    /\ AvailableUsd = 6000

----------------------------------------------------------------------------
(* The metrics of the account: wallet events of usd and BTC, ticks of      *)
(* BTCUSD at 10.00 and at 20.00, and the events of buys of BTCUSD (new,    *)
(* partly filled, executed), applied one by one.                           *)

MetricWallets == <<WalletEntry("exchange", "USD", 10000), WalletEntry("exchange", "BTC", 0)>>
MetricDeltas  == {WalletEntry("exchange", "USD", 5000), WalletEntry("exchange", "USD", 0),
                  WalletEntry("exchange", "BTC", 5), WalletEntry("exchange", "BTC", 10)}
MetricTicks   == {BtcTick, [bid |-> 3000, bid_size |-> 1, ask |-> 1000, ask_size |-> 1]}

OrderEvent ==
    \/ \E d \in FillNew : AccountUpdate("on", d)
    \/ \E d \in UpdateData : AccountUpdate("ou", d)
    \/ \E d \in FillClose : AccountUpdate("oc", d)

NextMetrics ==
    \/ AccountUpdate("ws", MetricWallets)
    \/ \E w \in MetricDeltas : AccountUpdate("wu", w)
    \/ \E t \in MetricTicks : AccountUpdate("tBTCUSD", t)
    \/ \E d \in FillNew : AccountUpdate("on", d)
    \/ \E d \in UpdateData : AccountUpdate("ou", d)
    \/ \E d \in FillClose : AccountUpdate("oc", d)

SpecMetrics == Init /\ [][NextMetrics]_vars

\* the sum over the wallet currencies of balance x last price, 1 for usd
WorthOf(w, p) ==
    DefaultGet(w, "usd") + DefaultGet(w, "btc") * DefaultGet(p, "BTCUSD")
                         + DefaultGet(w, "eth") * DefaultGet(p, "ETHUSD")

\* C27: value is the sum over the wallet currencies of balance x last
\* price (1 for usd); an order event leaves it unchanged, and a tick that
\* moves the price of a held coin changes it.
C27_ValueOfWalletsAndPrices ==
    [][/\ Value(wallets', prices') = WorthOf(wallets', prices')
       /\ OrderEvent => Value(wallets', prices') = Value(wallets, prices)
       /\ \A t \in MetricTicks :
            (AccountUpdate("tBTCUSD", t) /\ DefaultGet(wallets, "btc") > 0
                                        /\ WeightedMid(t) # DefaultGet(prices, "BTCUSD"))
                => Value(wallets', prices') # Value(wallets, prices)]_vars

\* the account holds 5 BTC at 20.00, worth 100.00, and an order is open
C27_Witness ==
    /\ Len(orders) > 0
    /\ DefaultGet(wallets, "btc") = 5
    /\ DefaultGet(prices, "BTCUSD") = 2000
    /\ Value(wallets, prices) = DefaultGet(wallets, "usd") + 10000

\* x is num / den as Python's floor on the percent grid
IsFloor(x, num, den) == x * den <= num /\ num < (x + 1) * den

CoinWorth == DefaultGet(wallets, "btc") * DefaultGet(prices, "BTCUSD")
UsdHeld   == DefaultGet(wallets, "usd")

\* C28 as stated: positions of private.py, like position of trade.py, is
\* (coinBalance x price - usdBalance) / totalValue.
C28_PositionsNetOfUsd ==
    (Has(prices, "BTCUSD") /\ Value(wallets, prices) > 0) =>
        /\ IsFloor(PositionTrade(wallets, prices, "BTCUSD"),
                   (CoinWorth - UsdHeld) * 100, Value(wallets, prices))
        /\ IsFloor(PositionOf(wallets, prices, "BTCUSD"),
                   (CoinWorth - UsdHeld) * 100, Value(wallets, prices))

\* C28 amended: from the raw wallet balances, position of trade.py is
\* (coinBalance x price - usdBalance) / totalValue (-1 with no coin, 0 when
\* the coin is worth the usd balance, +1 with no usd), and positions of
\* private.py is coinBalance x price / totalValue (0, 0.5 and 1).
C28_PositionsOfRawWallets ==
    (Has(prices, "BTCUSD") /\ Value(wallets, prices) > 0) =>
        /\ IsFloor(PositionTrade(wallets, prices, "BTCUSD"),
                   (CoinWorth - UsdHeld) * 100, Value(wallets, prices))
        /\ IsFloor(PositionOf(wallets, prices, "BTCUSD"),
                   CoinWorth * 100, Value(wallets, prices))
        /\ CoinWorth = 0 =>
              /\ PositionTrade(wallets, prices, "BTCUSD") = -100
              /\ PositionOf(wallets, prices, "BTCUSD") = 0
        /\ CoinWorth = UsdHeld =>
              /\ PositionTrade(wallets, prices, "BTCUSD") = 0
              /\ PositionOf(wallets, prices, "BTCUSD") = 50
        /\ UsdHeld = 0 =>
              /\ PositionTrade(wallets, prices, "BTCUSD") = 100
              /\ PositionOf(wallets, prices, "BTCUSD") = 100

\* the coin is worth the usd balance: 50.00 usd and 5 BTC at 10.00
C28_Witness ==
    /\ Has(prices, "BTCUSD")
    /\ UsdHeld = 5000
    /\ CoinWorth = 5000
    /\ PositionOf(wallets, prices, "BTCUSD") = 50
    /\ PositionTrade(wallets, prices, "BTCUSD") = 0

----------------------------------------------------------------------------
(* Draining the queues: the client stays connected, the transport puts     *)
(* order events (one of which may be malformed), wallet deltas and ticks   *)
(* of a subscribed symbol on their queues, and the receiver thread takes a *)
(* step whenever it can.                                                   *)

NextDrain ==
    \/ Connect(FundedWallets)
    \/ Subscribe("BTCUSD")
    \/ WriterTop
    \/ WriterPoll
    \/ WriterApply
    \/ ExchForeign(4, 1000)
    \/ ExchWalletUpdate(BtcWallet)
    \/ ExchTick("BTCUSD", BtcTick)
    \/ \E id \in Ids, m \in MalformedShapes : DeliverMalformed("ou", id, m[1], m[2])

SpecDrain ==
    /\ Init
    /\ [][NextDrain]_vars
    /\ WF_vars(WriterStep)

\* the event with arrival number n is waiting on a queue
Waiting(n) ==
    \/ \E src \in DOMAIN queue : \E i \in 1..Len(queue[src]) : queue[src][i].seq = n
    \/ \E sym \in DOMAIN tickq : \E i \in 1..Len(tickq[sym]) : tickq[sym][i].seq = n

\* C29: every event put on an account queue, or on the ticker queue of a
\* subscribed symbol, is eventually taken from its queue and applied to
\* the store by the receiver thread.
C29_EveryEventApplied ==
    \A n \in 0..MaxEvents :
        Waiting(n) ~> (~Waiting(n) /\ wops = << >> /\ wpc \in {"top", "poll"})

-----------------------------------------------------------------------------
(* public.py: get_symbols and the generator get_symbols_as_updated.  A     *)
(* symbol is the sequence of its characters, so that the substring test,   *)
(* the upper-casing and the sort of strings are computed as python does.   *)

MaxPolls == 3

Chars == <<"A", "B", "C", "D", "E", "H", "L", "N", "S", "T", "U",
           "a", "b", "c", "d", "e", "h", "l", "n", "s", "t", "u">>

Rank(ch) == CHOOSE k \in 1..Len(Chars) : Chars[k] = ch

UpperChar(ch) == IF Rank(ch) > 11 THEN Chars[Rank(ch) - 11] ELSE ch

StrUpper(s) == [k \in 1..Len(s) |-> UpperChar(s[k])]

HasUsd(s) == \E k \in 1..Len(s) : k + 2 <= Len(s) /\ SubSeq(s, k, k + 2) = <<"u", "s", "d">>

\* str.__lt__: the first character that differs decides, a proper prefix is smaller
StrLess(a, b) ==
    \E k \in 1..(Min2(Len(a), Len(b)) + 1) :
        /\ \A i \in 1..(k - 1) : a[i] = b[i]
        /\ \/ k > Len(a) /\ k <= Len(b)
           \/ k <= Len(a) /\ k <= Len(b) /\ Rank(a[k]) < Rank(b[k])

RECURSIVE SortedList(_)
SortedList(S) ==
    IF S = {} THEN << >>
    ELSE LET m == CHOOSE x \in S : \A y \in S \ {x} : StrLess(x, y)
         IN  <<m>> \o SortedList(S \ {m})

\* get_symbols(): the 'usd' entries of the exchange's list, upper-cased, in list order
RECURSIVE GetSymbols(_)
GetSymbols(listed) ==
    IF listed = << >> THEN << >>
    ELSE (IF HasUsd(Head(listed)) THEN <<StrUpper(Head(listed))>> ELSE << >>)
         \o GetSymbols(Tail(listed))

SetOf(list) == {list[k] : k \in 1..Len(list)}

\* symbols.update(new_symbols)
SymbolsUpdate_Replace(known, new) == new
SymbolsUpdate(known, new) == known \cup new

btcusd == <<"b", "t", "c", "u", "s", "d">>
ethusd == <<"e", "t", "h", "u", "s", "d">>
ltcusd == <<"l", "t", "c", "u", "s", "d">>
ethltc == <<"e", "t", "h", "l", "t", "c">>
sanusd == <<"s", "a", "n", "u", "s", "d">>

\* What https://api.bitfinex.com/v1/symbols may answer: the two lists of the
\* test, a list out of order in which symbols have disappeared, a list with a
\* repeated entry, a list without any usd symbol, and the empty list.
Listings == {<<btcusd, ethusd, ltcusd, ethltc>>,
             <<btcusd, ethusd, ltcusd, ethltc, sanusd>>,
             <<sanusd, ethltc, btcusd>>,
             <<ethusd, ethusd>>,
             <<ethltc>>,
             << >>}

\* symbols = set(get_symbols()); for s in list(sorted(symbols)): ...
GenStart(listed) ==
    /\ gen.pc = "start"
    /\ Len(ghost.polls) < MaxPolls
    /\ LET known == SetOf(GetSymbols(listed))
       IN  gen' = [gen EXCEPT !.pc = "for", !.symbols = known, !.todo = SortedList(known)]
    /\ ghost' = [ghost EXCEPT !.polls = Append(@, listed)]
    /\ UNCHANGED <<pub, coin, storeVars, symbols, disconnect, queue, tickq, sent, cancels, transportVars,
                   writerVars, kpc, callerVars, readerVars, exch, nextSeq, clock>>

\* yield s
GenYield ==
    /\ gen.pc = "for"
    /\ gen.todo # << >>
    /\ gen' = [gen EXCEPT !.out = Append(@, Head(gen.todo)), !.todo = Tail(@)]
    /\ UNCHANGED <<pub, coin, storeVars, symbols, disconnect, queue, tickq, sent, cancels, transportVars,
                   writerVars, kpc, callerVars, readerVars, exch, nextSeq, clock, ghost>>

\* one turn of the while loop, up to its for statement
GenPoll(listed) ==
    /\ gen.pc = "for"
    /\ gen.todo = << >>
    /\ Len(ghost.polls) < MaxPolls
    /\ LET current_symbols == SetOf(GetSymbols(listed))
           new_symbols == current_symbols \ gen.symbols
       IN  gen' = [gen EXCEPT !.symbols = SymbolsUpdate(gen.symbols, new_symbols),
                              !.todo = SortedList(new_symbols)]
    /\ ghost' = [ghost EXCEPT !.polls = Append(@, listed)]
    /\ UNCHANGED <<pub, coin, storeVars, symbols, disconnect, queue, tickq, sent, cancels, transportVars,
                   writerVars, kpc, callerVars, readerVars, exch, nextSeq, clock>>

NextSymbols ==
    \/ \E listed \in Listings : GenStart(listed)
    \/ GenYield
    \/ \E listed \in Listings : GenPoll(listed)

SpecSymbols == Init /\ [][NextSymbols]_vars

\* The upper-cased usd entries of the k-th answer of the exchange
UsdListed(k) == {StrUpper(s) : s \in {x \in SetOf(ghost.polls[k]) : HasUsd(x)}}

AllUsdListed == UNION {UsdListed(k) : k \in 1..Len(ghost.polls)}

IsUsdName(s) == \E k \in 1..Len(s) : k + 2 <= Len(s) /\ SubSeq(s, k, k + 2) = <<"U", "S", "D">>

\* C30: get_symbols_as_updated yields every usd symbol the exchange has
\* reported exactly once: the symbols of the first answer come first, in
\* sorted order; what is queued after a poll has never been yielded before;
\* once a batch is drained every reported usd symbol has been yielded; no
\* symbol is yielded twice, also when it left one answer and returned in a
\* later one; and nothing without 'usd' is yielded.
C30_EachSymbolOnce ==
    LET out == gen.out
        first == IF ghost.polls = << >> THEN {} ELSE UsdListed(1)
    IN  /\ \A i, j \in 1..Len(out) : i < j => out[i] # out[j]
        /\ \A i \in 1..Len(out) : out[i] \in AllUsdListed /\ IsUsdName(out[i])
        /\ \A i, j \in 1..Min2(Len(out), Cardinality(first)) :
               out[i] \in first /\ (i < j => StrLess(out[i], out[j]))
        /\ SetOf(gen.todo) \cap SetOf(out) = {}
        /\ SetOf(gen.todo) \cup SetOf(out) = AllUsdListed
        /\ gen.todo = << >> => SetOf(out) = AllUsdListed

\* A symbol of the first answer was missing from the second and came back in
\* the third, and every batch has been yielded.
C30_Witness ==
    /\ Len(ghost.polls) >= 3
    /\ \E s \in UsdListed(1) : s \notin UsdListed(2) /\ s \in UsdListed(3)
    /\ UsdListed(2) \ UsdListed(1) # {}
    /\ \E x \in SetOf(ghost.polls[1]) : ~HasUsd(x)
    /\ gen.todo = << >>
    /\ Len(gen.out) >= 4

-----------------------------------------------------------------------------
(* public.py: PublicData.get, get_nowait, subscribe and their parsers.     *)
(* A message is the payload data[0] the transport queued, with the python  *)
(* type of its first inner element ("str", "num", "list") as `form`.       *)

privVars == <<storeVars, symbols, disconnect, queue, tickq, sent, cancels, transportVars,
              writerVars, kpc, callerVars, readerVars, exch, nextSeq, clock>>

CandlePeriods == {"1m", "5m", "15m", "30m", "1h", "3h", "6h", "12h", "1D", "7D", "14D", "1M"}

\* [bid, bid_size, ask, ask_size, change, change_perc, last_price, volume, high, low]
TickerRow(k) == <<7500 + k, 1, 7502 + k, 1, 0, 0, 7400 + k, 26000, 7600, 7300>>
\* [id, timestamp in ms, amount, price]
TradeRow(k) == <<250 + k, 1000 * k, -5, 7500 + k>>
\* [timestamp in ms, open, high, low, close, volume]
CandleRow(k) == <<60000 * k, 7500 + k, 7600, 7400, 7505 + k, 5>>

PubShapes(type) == CASE type = <<"tickers">> -> {"update"}
                     [] type = <<"trades">> -> {"te", "tu", "snapshot"}
                     [] OTHER -> {"update", "snapshot"}

PubMessage(type, shape, k) ==
    CASE type = <<"tickers">> -> [form |-> "num", body |-> <<TickerRow(k)>>]
      [] type = <<"trades">> /\ shape = "snapshot" ->
             [form |-> "list", body |-> <<<<TradeRow(k), TradeRow(k + 10)>>>>]
      [] type = <<"trades">> -> [form |-> "str", body |-> <<shape, TradeRow(k)>>]
      [] shape = "snapshot" -> [form |-> "list", body |-> <<<<CandleRow(k), CandleRow(k + 10)>>>>]
      [] OTHER -> [form |-> "num", body |-> <<CandleRow(k)>>]

\* _handle_ticker: the parsed ticker (bid, ask, mid and last price of the dict)
PublicHandleTicker(data) ==
    <<[bid |-> data[1][1], ask |-> data[1][3], mid |-> (data[1][1] + data[1][3]) \div 2,
       last_price |-> data[1][7]]>>

\* _handle_trade: None, here the empty sequence, unless the message is a 'tu'
HandleTrade_AnyKind(data) ==
    <<[id |-> data[2][1], timestamp |-> data[2][2] \div 1000,
       price |-> data[2][4], amount |-> data[2][3]]>>
HandleTrade(data) ==
    IF data[1] = "tu"
    THEN <<[id |-> data[2][1], timestamp |-> data[2][2] \div 1000,
            price |-> data[2][4], amount |-> data[2][3]]>>
    ELSE << >>

\* _handle_candle
HandleCandle(data) ==
    <<[timestamp |-> data[1][1] \div 1000, open |-> data[1][2], high |-> data[1][3],
       low |-> data[1][4], close |-> data[1][5], volume |-> data[1][6]]>>

\* PublicData._clean_data
CleanData(type, msg) ==
    IF type = <<"trades">>
    THEN (IF msg.form = "str" THEN msg.body ELSE <<"tu", msg.body[1][1]>>)
    ELSE IF Len(type) = 2
         THEN (IF msg.form = "num" THEN msg.body ELSE <<msg.body[1][1]>>)
         ELSE msg.body

\* handler(self._clean_data(_type, data)) of PublicData._get_nowait
PubParse(type, msg) ==
    IF type = <<"tickers">> THEN PublicHandleTicker(CleanData(type, msg))
    ELSE IF type = <<"trades">> THEN HandleTrade(CleanData(type, msg))
    ELSE HandleCandle(CleanData(type, msg))

\* PublicData._assert_types_are_correct
TypesAreCorrect(types) ==
    \A type \in types :
        IF Len(type) = 1 THEN type[1] \in {"tickers", "trades"}
        ELSE type[1] = "candles" /\ type[2] \in CandlePeriods

PubRegistered(type, symbol) == type \in pub.types /\ symbol \in pub.symbols

\* PublicData._get_nowait: what the call leaves in the queue and what it gives
PubTake(type, symbol) ==
    LET pair == <<type, symbol>>
    IN  IF pub.q[pair] = << >>
        THEN [q |-> pub.q, v |-> << >>]
        ELSE [q |-> [pub.q EXCEPT ![pair] = Tail(@)], v |-> PubParse(type, Head(pub.q[pair]))]

\* the transport queues a message of a channel
PubPut(type, symbol, shape) ==
    /\ ghost.pcount < MaxPub
    /\ LET k == ghost.pcount + 1
           pair == <<type, symbol>>
       IN  /\ pub' = [pub EXCEPT !.q[pair] = Append(@, PubMessage(type, shape, k))]
           /\ ghost' = [ghost EXCEPT !.pcount = k, !.pput[pair] = Append(@, <<shape, k>>)]
    /\ UNCHANGED <<privVars, gen, coin>>

\* PublicData.subscribe
PubSubscribe(type, symbol) ==
    /\ pub.pc = "idle"
    /\ IF TypesAreCorrect({type})
       THEN pub' = [pub EXCEPT !.types = @ \cup {type}, !.symbols = @ \cup {symbol},
                               !.ret = NoPubResult]
       ELSE pub' = [pub EXCEPT !.ret = [kind |-> "AssertionError", v |-> << >>]]
    /\ UNCHANGED <<privVars, gen, coin, ghost>>

\* PublicData.get_nowait
PubGetNowait(type, symbol) ==
    /\ pub.pc = "idle"
    /\ IF ~PubRegistered(type, symbol)
       THEN /\ pub' = [pub EXCEPT !.ret = [kind |-> "AssertionError", v |-> << >>]]
            /\ UNCHANGED ghost
       ELSE LET taken == PubTake(type, symbol)
            IN  /\ pub' = [pub EXCEPT !.q = taken.q,
                                      !.ret = IF taken.v = << >>
                                              THEN [kind |-> "Empty", v |-> << >>]
                                              ELSE [kind |-> "datum", v |-> taken.v]]
                /\ ghost' = [ghost EXCEPT !.pgot[<<type, symbol>>] = @ \o taken.v]
    /\ UNCHANGED <<privVars, gen, coin>>

\* PublicData.get: the assertions, then into the loop
PubGet(type, symbol) ==
    /\ pub.pc = "idle"
    /\ IF ~PubRegistered(type, symbol)
       THEN pub' = [pub EXCEPT !.ret = [kind |-> "AssertionError", v |-> << >>]]
       ELSE pub' = [pub EXCEPT !.pc = "get", !.args = <<type, symbol>>, !.ret = NoPubResult]
    /\ UNCHANGED <<privVars, gen, coin, ghost>>

\* one turn of the loop of PublicData.get that finds a message; on Empty it sleeps
PubGetPoll ==
    /\ pub.pc = "get"
    /\ pub.q[pub.args] # << >>
    /\ LET taken == PubTake(pub.args[1], pub.args[2])
       IN  /\ pub' = IF taken.v = << >>
                     THEN [pub EXCEPT !.q = taken.q]
                     ELSE [pub EXCEPT !.q = taken.q, !.pc = "idle", !.args = << >>,
                                      !.ret = [kind |-> "datum", v |-> taken.v]]
           /\ ghost' = [ghost EXCEPT !.pgot[pub.args] = @ \o taken.v]
    /\ UNCHANGED <<privVars, gen, coin>>

\* the channels on which the exchange sends
PubChannels == PubTypes \X {"BTCUSD"}

\* the types a caller subscribes to: one accepted, two refused by the assertions
AskedTypes == {<<"candles", "1m">>, <<"candles", "2m">>, <<"books">>}

NextPublic ==
    \/ \E p \in PubChannels : \E shape \in PubShapes(p[1]) : PubPut(p[1], p[2], shape)
    \/ \E type \in AskedTypes : PubSubscribe(type, "ETHUSD")
    \/ \E type \in PubTypes, symbol \in PubSymbols : PubGetNowait(type, symbol)
    \/ \E type \in PubTypes, symbol \in PubSymbols : PubGet(type, symbol)
    \/ PubGetPoll

SpecPublic == Init /\ [][NextPublic]_vars

\* What a caller is to receive for the k-th message, by type and shape
PubExpected(type, shape, k) ==
    CASE type = <<"tickers">> ->
             <<[bid |-> 7500 + k, ask |-> 7502 + k, mid |-> 7501 + k, last_price |-> 7400 + k]>>
      [] type = <<"trades">> /\ shape = "te" -> << >>
      [] type = <<"trades">> ->
             <<[id |-> 250 + k, timestamp |-> k, price |-> 7500 + k, amount |-> -5]>>
      [] OTHER ->
             <<[timestamp |-> 60 * k, open |-> 7500 + k, high |-> 7600, low |-> 7400,
                close |-> 7505 + k, volume |-> 5]>>

RECURSIVE PubExpectedAll(_, _)
PubExpectedAll(type, puts) ==
    IF puts = << >> THEN << >>
    ELSE PubExpected(type, Head(puts)[1], Head(puts)[2]) \o PubExpectedAll(type, Tail(puts))

PubConsumed(pair) == SubSeq(ghost.pput[pair], 1, Len(ghost.pput[pair]) - Len(pub.q[pair]))

\* each queue has given its data in queue order, and get() has not returned while it waits
PubInOrder ==
    /\ \A pair \in PubPairs : ghost.pgot[pair] = PubExpectedAll(pair[1], PubConsumed(pair))
    /\ pub.pc = "get" => pub.ret.kind = "none" /\ PubRegistered(pub.args[1], pub.args[2])

PubNowaitResult(type, symbol) ==
    LET pair == <<type, symbol>>
    IN  IF ~PubRegistered(type, symbol)
        THEN pub'.ret.kind = "AssertionError" /\ pub'.q = pub.q
        ELSE IF pub.q[pair] = << >>
        THEN pub'.ret.kind = "Empty" /\ pub'.q = pub.q
        ELSE LET put == ghost.pput[pair][Len(PubConsumed(pair)) + 1]
                 due == PubExpected(type, put[1], put[2])
             IN  /\ pub'.q = [pub.q EXCEPT ![pair] = Tail(@)]
                 /\ IF due = << >> THEN pub'.ret.kind = "Empty"
                    ELSE pub'.ret = [kind |-> "datum", v |-> due]

PubGetResult ==
    /\ \A type \in PubTypes, symbol \in PubSymbols :
           PubGet(type, symbol) =>
               IF PubRegistered(type, symbol) THEN pub'.pc = "get" /\ pub'.q = pub.q
               ELSE pub'.pc = "idle" /\ pub'.ret.kind = "AssertionError" /\ pub'.q = pub.q
    /\ pub.pc = "get" /\ pub'.pc = "idle" =>
           /\ pub'.ret.kind = "datum"
           /\ ghost'.pgot[pub.args] = ghost.pgot[pub.args] \o pub'.ret.v
           /\ Len(pub'.ret.v) = 1
    /\ pub.pc = "get" /\ pub'.pc = "get" /\ Len(pub'.q[pub.args]) < Len(pub.q[pub.args]) =>
           /\ pub.args[1] = <<"trades">>
           /\ ghost.pput[pub.args][Len(PubConsumed(pub.args)) + 1][1] = "te"

\* C31: get_nowait gives the next parsed datum of the queue, Empty when the
\* queue holds nothing or when the message it took is a trade that is not a
\* 'tu'; get waits until it has a datum; each queue's data come out in queue
\* order; both raise AssertionError for an unregistered type or symbol.
C31_GetAndGetNowait ==
    /\ []PubInOrder
    /\ [][/\ \A type \in PubTypes, symbol \in PubSymbols :
                 PubGetNowait(type, symbol) => PubNowaitResult(type, symbol)
          /\ PubGetResult]_vars

\* A 'te' of the BTCUSD trades was taken, a trade of that queue was
\* returned, and the last call was refused by an assertion.
C31_Witness ==
    LET pair == <<<<"trades">>, "BTCUSD">>
    IN  /\ \E i \in 1..Len(PubConsumed(pair)) : PubConsumed(pair)[i][1] = "te"
        /\ ghost.pgot[pair] # << >>
        /\ pub.ret.kind = "AssertionError"
        /\ pub.pc = "idle"

-----------------------------------------------------------------------------
(* Open orders and executed history under duplicated and late order events *)

ExecutedIds == {executed[i][1] : i \in 1..Len(executed)}

\* C32: no order id is both in the open orders and in the executed history,
\* whatever order events arrive, duplicated ones included, and in whatever
\* order the writer takes them from the order queues.  Stated for the
\* moments at which the writer is between two events, the weakest reading.
C32_OpenOrExecuted ==
    wops = << >> => \A id \in Ids : ~(Has(orders, id) /\ id \in ExecutedIds)

\* C33: once the close event of an id has been applied, executed or
\* cancelled, the id is never again in the open orders, also when an earlier
\* new or update event of that id is delivered again or is applied late.
C33_ClosedStaysClosed ==
    wops = << >> => \A id \in Ids : ghost.closedMax[id] > 0 => ~Has(orders, id)

-----------------------------------------------------------------------------
(* Orders sent one after the other before the first is confirmed: a caller *)
(* with return_id=False on an account of 100.00 usd; nothing is filled and *)
(* no wallet event follows the snapshot.                                   *)

CommitWallets == <<WalletEntry("exchange", "USD", 10000)>>

\* order('BTCUSD', 10.00, dollar_amount=60.00 or 40.00, return_id=False)
CommitOrders ==
    {OrderArgs("BTCUSD", <<1000>>, <<d>>, << >>, << >>, "limit", << >>, FALSE) : d \in {6000, 4000}}

NextCommit ==
    \/ Connect(CommitWallets)
    \/ WriterTop
    \/ WriterPoll
    \/ WriterApply
    \/ \E c \in Callers, a \in CommitOrders : OrderCall(c, a)
    \/ \E c \in Callers : SnapIds(c)
    \/ \E c \in Callers : SnapExec(c)
    \/ \E c \in Callers : Submit(c)
    \/ \E c \in Callers : NextCall(c)
    \/ \E j \in 1..MaxCalls : ExchAccept(j)

SpecCommit == Init /\ [][NextCommit]_vars

RECURSIVE SentBuyNotional(_)
SentBuyNotional(calls) ==
    IF calls = << >> THEN 0
    ELSE (IF Head(calls).amount > 0 THEN Head(calls).amount * Head(calls).price ELSE 0)
         + SentBuyNotional(Tail(calls))

\* C34: the buy orders sent to the transport and not yet paid from the
\* wallet are together worth at most the usd balance, and the available usd
\* is never negative.
C34_NeverOverCommitted ==
    /\ SentBuyNotional(sent) <= DefaultGet(wallets, "usd")
    /\ AvailableUsd >= 0

-----------------------------------------------------------------------------
(* Two threads in order(return_id=True) at the same time, one order each   *)

PairCall(c) == ghost.calls[c] = 0 /\ OrderCall(c, PlainOrder)

NextPair ==
    \/ Connect(FundedWallets)
    \/ WriterTop
    \/ WriterPoll
    \/ WriterApply
    \/ \E c \in Threads : PairCall(c)
    \/ \E c \in Threads : SnapIds(c)
    \/ \E c \in Threads : SnapExec(c)
    \/ \E c \in Threads : Submit(c)
    \/ \E c \in Threads : Poll(c)
    \/ \E c \in Threads : PollExec(c)
    \/ \E c \in Threads : PollRet(c)
    \/ \E j \in 1..2 : ExchAccept(j)
    \/ \E j \in 1..2 : ExchAcceptFilled(j)

SpecPair == Init /\ [][NextPair]_vars

Returned(c) == cpc[c] = "done" /\ cret[c].kind = "return"

\* C35: two order(return_id=True) calls that run at the same time and each
\* submit one order never return the same id.
C35_DistinctIds ==
    (Returned("c1") /\ Returned("c2")) => cret["c1"].id # cret["c2"].id

-----------------------------------------------------------------------------
(* A submitted order that is cancelled right after it was confirmed.  The  *)
(* writer and the caller each take a step whenever they can.               *)

NextRace ==
    \/ Connect(FundedWallets)
    \/ WriterTop
    \/ WriterPoll
    \/ WriterApply
    \/ \E c \in Callers : OrderCall(c, PlainOrder)
    \/ \E c \in Callers : SnapIds(c)
    \/ \E c \in Callers : SnapExec(c)
    \/ \E c \in Callers : Submit(c)
    \/ \E c \in Callers : Poll(c)
    \/ \E c \in Callers : PollExec(c)
    \/ \E c \in Callers : PollRet(c)
    \/ \E j \in 1..MaxCalls : ExchAccept(j)
    \/ \E j \in 1..MaxCalls : ExchAcceptFilled(j)
    \/ \E id \in Ids : ExchCancel(id)

SpecRace ==
    /\ Init
    /\ [][NextRace]_vars
    /\ WF_vars(WriterStep)
    /\ \A c \in Callers : WF_vars(OrderStep(c))

\* the 'on' event of the order that caller c submitted has been applied
Confirmed(c) == ghost.mine[c] # 0 /\ <<"on", ghost.mine[c]>> \in ghost.capplied[c]

\* C36: when the new event of the submitted order has been applied to the
\* store, order(return_id=True) eventually returns, also when the order is
\* cancelled, and so leaves the open orders, before the caller polls again.
C36_ConfirmedReturns ==
    \A c \in Callers : (InCorrelation(c) /\ Confirmed(c)) ~> (cpc[c] = "done")

-----------------------------------------------------------------------------
(* What each kind of event leaves alone: order events, wallet events and   *)
(* ticks of two symbols on one account.                                    *)

FrameOrderEvent ==
    \/ \E d \in FillNew : AccountUpdate("on", d)
    \/ \E d \in UpdateData : AccountUpdate("ou", d)
    \/ \E d \in CloseData : AccountUpdate("oc", d)
    \/ AccountUpdate("os", InitData)

FrameWalletEvent ==
    \/ AccountUpdate("ws", FundedWallets)
    \/ \E w \in DeltaData : AccountUpdate("wu", w)

FrameTick(cmd) == \E t \in MetricTicks : AccountUpdate(cmd, t)

NextFrame ==
    \/ \E d \in FillNew : AccountUpdate("on", d)
    \/ \E d \in UpdateData : AccountUpdate("ou", d)
    \/ \E d \in CloseData : AccountUpdate("oc", d)
    \/ AccountUpdate("os", InitData)
    \/ AccountUpdate("ws", FundedWallets)
    \/ \E w \in DeltaData : AccountUpdate("wu", w)
    \/ \E t \in MetricTicks : AccountUpdate("tBTCUSD", t)
    \/ \E t \in MetricTicks : AccountUpdate("tETHUSD", t)

SpecFrame == Init /\ [][NextFrame]_vars

PriceKept(s) ==
    /\ Has(prices', s) <=> Has(prices, s)
    /\ Has(prices, s) => Get(prices', s) = Get(prices, s)

\* C37: an order event leaves the wallets and the prices as they were, a
\* wallet event leaves the open orders, the executed history and the prices
\* as they were, and a tick changes the price of its own symbol only.
C37_EventsKeepToTheirPart ==
    [][/\ FrameOrderEvent => wallets' = wallets /\ prices' = prices
       /\ FrameWalletEvent => orders' = orders /\ executed' = executed /\ prices' = prices
       /\ \A cmd \in {"tBTCUSD", "tETHUSD"} :
              FrameTick(cmd) =>
                  /\ orders' = orders /\ executed' = executed /\ wallets' = wallets
                  /\ Has(prices', TickerSymbol(cmd))
                  /\ \A s \in Symbols \ {TickerSymbol(cmd)} : PriceKept(s)]_vars

\* both symbols have a price, not the same, next to a funded wallet
C37_Witness ==
    /\ Has(prices, "BTCUSD") /\ Has(prices, "ETHUSD")
    /\ Get(prices, "BTCUSD") # Get(prices, "ETHUSD")
    /\ Has(wallets, "usd")

-----------------------------------------------------------------------------
(* Wallet events of the margin and funding wallets next to those of the    *)
(* exchange wallet                                                         *)

ForeignDeltas == {WalletEntry("margin", "BTC", 3), WalletEntry("funding", "USD", 1)}

NextWallets ==
    \/ AccountUpdate("ws", FundedWallets)
    \/ \E w \in DeltaData : AccountUpdate("wu", w)
    \/ \E w \in ForeignDeltas : AccountUpdate("wu", w)
    \/ \E d \in FillNew : AccountUpdate("on", d)

SpecWallets == Init /\ [][NextWallets]_vars

\* C38: a wallet event of a wallet type other than 'exchange' never changes
\* the wallets, be it an entry of a snapshot or a delta.
C38_ForeignWalletsIgnored ==
    [][/\ AccountUpdate("ws", FundedWallets) =>
              \A c \in Currencies \ ExchangeCurrencies(FundedWallets) : BalanceKept(c)
       /\ \A w \in ForeignDeltas : AccountUpdate("wu", w) => wallets' = wallets]_vars

-----------------------------------------------------------------------------
(* api.py: CoinAPI.get(symbol, 'candles') with parse_candles and           *)
(* filter_candles, for the one symbol BTCUSD.  A parsed candle is a dict;  *)
(* its key 'time' is the sequence <<t>> when present and << >> when popped. *)

SeenWindow == 5

\* [timestamp in ms, open, high, low, close, volume] of minute t with content x
CoinCandle(t, x) == <<60000 * t, 7500 + x, 7600, 7400, 7505 + x, 5>>

\* what the transport queues: single candles, and a snapshot of two minutes
\* with the same content
CoinMessages ==
    {[form |-> "num", body |-> <<CoinCandle(t, x)>>] : t \in 1..2, x \in 1..2}
    \cup {[form |-> "list", body |-> <<<<CoinCandle(2, 1), CoinCandle(1, 1)>>>>]}

\* parse_candles: the rows of the message, oldest first for a snapshot
ParseCandles(symbol, msg) ==
    LET items == IF msg.form = "list" THEN msg.body[1] ELSE <<msg.body[1]>>
        n == Len(items)
    IN  [k \in 1..n |->
            LET row == items[n - k + 1]
            IN  [symbol |-> symbol, time |-> <<row[1] \div 1000>>, open |-> row[2],
                 high |-> row[3], low |-> row[4], close |-> row[5], volume |-> row[6]]]

\* deque(maxlen=5).append
SeenAppend(q, x) == IF Len(q) >= SeenWindow THEN Append(Tail(q), x) ELSE Append(q, x)

\* CoinAPI.filter_candles.  t = i.pop('time') leaves i without its time for
\* the test `i not in self.seen[...]`; self.seen[...].append(i) stores the
\* dict i itself, not a copy, so the next statement i['time'] = t writes the
\* time into the stored dict too: what the window keeps has its time.
RECURSIVE FilterCandles(_, _, _)
FilterCandles(seen, cleaned, kept) ==
    IF cleaned = << >> THEN [seen |-> seen, cleaned |-> kept]
    ELSE LET i == Head(cleaned)
             popped == [i EXCEPT !.time = << >>]
         IN  IF popped \notin SetOf(seen)
             THEN FilterCandles(SeenAppend(seen, i), Tail(cleaned), Append(kept, i))
             ELSE FilterCandles(seen, Tail(cleaned), kept)

\* the transport queues a candles message of BTCUSD
CoinPut(msg) ==
    /\ ghost.cput < MaxPub
    /\ coin' = [coin EXCEPT !.data = Append(@, msg)]
    /\ ghost' = [ghost EXCEPT !.cput = @ + 1]
    /\ UNCHANGED <<privVars, gen, pub>>

\* CoinAPI.get up to its last line: data.get() has a message, it is parsed,
\* filtered and what is kept is put on the return queue
CoinGet ==
    /\ coin.pc = "idle"
    /\ coin.data # << >>
    /\ LET f == FilterCandles(coin.seen, ParseCandles("BTCUSD", Head(coin.data)), << >>)
       IN  coin' = [coin EXCEPT !.data = Tail(@), !.seen = f.seen,
                                !.rq = @ \o f.cleaned, !.pc = "return"]
    /\ UNCHANGED <<privVars, gen, pub, ghost>>

\* return self.return_queues[symbol][_type].get(), which waits while the
\* return queue is empty
CoinReturn ==
    /\ coin.pc = "return"
    /\ coin.rq # << >>
    /\ coin' = [coin EXCEPT !.rq = Tail(@), !.pc = "idle"]
    /\ ghost' = [ghost EXCEPT !.cgot = Append(@, Head(coin.rq))]
    /\ UNCHANGED <<privVars, gen, pub>>

NextCoin ==
    \/ \E msg \in CoinMessages : CoinPut(msg)
    \/ CoinGet
    \/ CoinReturn

SpecCoin == Init /\ [][NextCoin]_vars

CandleContent(d) == [d EXCEPT !.time = << >>]

\* C39: get(symbol, 'candles') never delivers a candle whose content, every
\* field but the time, equals that of one of the candles delivered just
\* before it, as far back as the window of filter_candles reaches.
C39_NoRepeatedCandle ==
    \A i, j \in 1..Len(ghost.cgot) :
        (i < j /\ j - i <= SeenWindow) =>
            CandleContent(ghost.cgot[i]) # CandleContent(ghost.cgot[j])
====
